---- MODULE Spec2Model ----
(***************************************************************************)
(* Callora backend: the usage store, the per-key rate limiter, the         *)
(* idempotent billing ledger, endpoint pricing and the /v1/call proxy,     *)
(* modelled as state machines.                                             *)
(*                                                                         *)
(* Every handler of the Node process runs to completion between two        *)
(* awaits, so a synchronous method (InMemoryUsageStore.record,             *)
(* InMemoryRateLimiter.check) is one atomic action; an async method        *)
(* (BillingService.deduct) is one action per await.                        *)
(*                                                                         *)
(* UsageSpec, RateSpec, BillingSpec, StatusSpec and PricingSpec each run   *)
(* one component and leave the variables of the others at their initial    *)
(* values; ProxySpec runs handleProxy over the registry, the key map, the  *)
(* rate limiter, the balance store and the usage store.  GatewaySpec runs  *)
(* the legacy gateway route next to the proxy over the same collaborators, *)
(* HealthSpec the health check and HeadersSpec the building of the         *)
(* headers that are sent to the upstream.  ProxyLiveSpec is the proxy with *)
(* the fairness that the deadline of the fetch gives.                      *)
(***************************************************************************)
EXTENDS Integers, Sequences, FiniteSets

(***************************************************************************)
(* Bounds of the model.                                                    *)
(***************************************************************************)
MaxUsageOps == 4
MaxTime == 6
MaxQuota == 2
MaxWindow == 3
MaxCalls == 4
MaxEndpoints == 2
MaxPatternLen == 2
MaxPathLen == 3
MaxBalance == 3
MaxProxyCalls == 2
MaxHeaders == 2

RequestIds == {"req1", "req2"}
ApiKeys == {"keyA", "keyB"}
Callers == {"c1", "c2", "c3"}
Pollers == {"c1", "c2"}
Handlers == {1, 2}
Developers == {"dev1", "dev2"}

NoRequest == "none"
NoBucket == [tokens |-> -1, lastRefill |-> -1]
NoHash == 0
NoRow == [id |-> 0, txHash |-> NoHash]

VARIABLES
    events,           \* InMemoryUsageStore.events
    requestIds,       \* InMemoryUsageStore.requestIds
    usageLog,         \* observer: the calls made on the usage store, in order
    buckets,          \* InMemoryRateLimiter.buckets
    maxRequests,      \* InMemoryRateLimiter.maxRequests
    windowMs,         \* InMemoryRateLimiter.windowMs
    now,              \* Date.now()
    lastCheck,        \* observer: the last check() call and what it returned
    allowedInWindow,  \* observer: calls allowed since the key's window started
    rows,             \* usage_events: the committed rows
    pending,          \* per open transaction: the row it inserted, not yet committed
    nextId,           \* usage_events.id sequence
    pc,               \* per caller: the await its deduct call is at
    req,              \* per caller: the requestId of its deduct call
    localTx,          \* per caller: deduct's local stellarTxHash
    serial,           \* observer, per requestId: a call began after another had finished
    settleCalls,      \* observer: deductBalance invocations made for each requestId
    txCount,          \* settlement service: transactions made so far
    results,          \* observer: what the finished deduct calls returned, in order
    started,          \* observer: deduct calls started
    lookup,           \* observer: the last getByRequestId call and what it returned
    endpointList,     \* resolveEndpointPrice: the endpoints argument
    requestPath,      \* resolveEndpointPrice: the path argument
    resolved,         \* resolveEndpointPrice: what the call returned
    passed,           \* observer: the list as the caller built it before the call
    balances,         \* MockSorobanBilling.balances
    recordableStatuses, \* ProxyConfig.recordableStatuses: the default or accept-all
    handler,          \* per handleProxy invocation: its locals and its response
    issued,           \* randomUUID: requestIds handed out so far
    lastResponse,     \* observer: the last response that went out
    deductLog,        \* observer: the deductCredit invocations, in order
    health,           \* GET /api/health: the checks, the overall status, the status code
    headers           \* handleProxy step 6: the inbound headers and forwardHeaders

usageVars == <<events, requestIds, usageLog>>
rateVars == <<buckets, maxRequests, windowMs, now, lastCheck, allowedInWindow>>
ledgerVars == <<rows, pending, nextId, pc, req, localTx, serial, settleCalls, txCount,
                results, started, lookup>>
pricingVars == <<endpointList, requestPath, resolved, passed>>
proxyVars == <<balances, recordableStatuses, handler, issued, lastResponse,
                 deductLog>>
sideVars == <<health, headers>>
gatewayVars == <<endpointList, requestPath, resolved, passed,
                 balances, recordableStatuses, handler, issued, lastResponse,
                 deductLog, sideVars>>
vars == <<events, requestIds, usageLog,
          buckets, maxRequests, windowMs, now, lastCheck, allowedInWindow,
          rows, pending, nextId, pc, req, localTx, serial, settleCalls, txCount,
          results, started, lookup,
          endpointList, requestPath, resolved, passed,
          balances, recordableStatuses, handler, issued, lastResponse,
          deductLog, sideVars>>

Max(a, b) == IF a >= b THEN a ELSE b

(***************************************************************************)
(* InMemoryUsageStore                                                      *)
(***************************************************************************)
UsageEvents == [requestId : RequestIds, apiKey : ApiKeys]

\* The events of the list that carry requestId r.
EventsWith(r) == {i \in 1..Len(events) : events[i].requestId = r}

\* A store whose record forgets the requestId check.
IsDuplicateNever(event) == FALSE

IsDuplicate(event) == event.requestId \in requestIds

\* A store that pushes the event and forgets to remember its requestId.
RememberNothing(event) == requestIds

RememberRequestId(event) == requestIds \cup {event.requestId}

HasEvent(r) == r \in requestIds

GetEvents(apiKey) ==
    IF apiKey # NoRequest
    THEN SelectSeq(events, LAMBDA e : e.apiKey = apiKey)
    ELSE events

\* record(event): what the call does to the store.
RecordEvent(event) ==
    IF IsDuplicate(event)
    THEN /\ UNCHANGED <<events, requestIds>>
         /\ usageLog' = Append(usageLog,
                [op |-> "record", requestId |-> event.requestId, ret |-> FALSE,
                 present |-> EventsWith(event.requestId) # {}])
    ELSE /\ requestIds' = RememberRequestId(event)
         /\ events' = Append(events, event)
         /\ usageLog' = Append(usageLog,
                [op |-> "record", requestId |-> event.requestId, ret |-> TRUE,
                 present |-> EventsWith(event.requestId) # {}])

Record(event) ==
    /\ Len(usageLog) < MaxUsageOps
    /\ RecordEvent(event)
    /\ UNCHANGED rateVars
    /\ UNCHANGED ledgerVars
    /\ UNCHANGED gatewayVars

\* A clear that empties the list and leaves the set of requestIds as it is.
ClearEventsOnly ==
    /\ Len(usageLog) < MaxUsageOps
    /\ events' = <<>>
    /\ requestIds' = requestIds
    /\ usageLog' = Append(usageLog,
           [op |-> "clear", requestId |-> NoRequest, ret |-> FALSE, present |-> FALSE])
    /\ UNCHANGED rateVars
    /\ UNCHANGED ledgerVars
    /\ UNCHANGED gatewayVars

Clear ==
    /\ Len(usageLog) < MaxUsageOps
    /\ events' = <<>>
    /\ requestIds' = {}
    /\ usageLog' = Append(usageLog,
           [op |-> "clear", requestId |-> NoRequest, ret |-> FALSE, present |-> FALSE])
    /\ UNCHANGED rateVars
    /\ UNCHANGED ledgerVars
    /\ UNCHANGED gatewayVars

UsageStoreInit ==
    /\ events = <<>>
    /\ requestIds = {}
    /\ usageLog = <<>>

(***************************************************************************)
(* InMemoryRateLimiter                                                     *)
(***************************************************************************)
NoCheck ==
    [key |-> NoRequest, allowed |-> FALSE, retryAfterMs |-> 0, flip |-> FALSE,
     hadBucket |-> FALSE, elapsed |-> 0, tokensBefore |-> 0]

NewBucket == [tokens |-> maxRequests, lastRefill |-> now]

\* A limiter that tops the bucket up by one token per elapsed millisecond.
RefillContinuous(bucket) ==
    IF now - bucket.lastRefill >= 1
    THEN [tokens |-> IF bucket.tokens < maxRequests THEN bucket.tokens + 1
                     ELSE bucket.tokens,
          lastRefill |-> now]
    ELSE bucket

\* A limiter that stamps the bucket with the time of every call.
RefillStamp(bucket) ==
    IF now - bucket.lastRefill >= windowMs
    THEN [tokens |-> maxRequests, lastRefill |-> now]
    ELSE [bucket EXCEPT !.lastRefill = now]

Refill(bucket) ==
    IF now - bucket.lastRefill >= windowMs
    THEN [tokens |-> maxRequests, lastRefill |-> now]
    ELSE bucket

\* A limiter whose decrement is lost.
ConsumeLost(bucket) == bucket

Consume(bucket) == [bucket EXCEPT !.tokens = @ - 1]

\* A limiter that answers with the time elapsed in the window, not the time left.
RetryAfterElapsed(bucket) == Max(now - bucket.lastRefill, 0)

RetryAfterMs(bucket) == Max(windowMs - (now - bucket.lastRefill), 0)

CheckSeen(apiKey, had, bucket, allowed, retryAfterMs) ==
    [key |-> apiKey, allowed |-> allowed, retryAfterMs |-> retryAfterMs,
     flip |-> ~lastCheck.flip, hadBucket |-> had,
     elapsed |-> now - bucket.lastRefill, tokensBefore |-> bucket.tokens]

\* A limiter that keeps one bucket for all keys.
CheckSharedBucket(apiKey) ==
    LET had == buckets[apiKey] # NoBucket
        bucket == IF had THEN buckets[apiKey] ELSE NewBucket
        refilled == Refill(bucket)
        allowed == refilled.tokens > 0
    IN  /\ buckets' = [k \in ApiKeys |->
                           IF allowed THEN Consume(refilled) ELSE refilled]
        /\ lastCheck' = CheckSeen(apiKey, had, bucket, allowed,
                                  IF allowed THEN 0 ELSE RetryAfterMs(refilled))
        /\ allowedInWindow' = allowedInWindow
        /\ UNCHANGED <<maxRequests, windowMs, now>>

\* check(apiKey): what the call does to the limiter.
CheckBucket(apiKey) ==
    LET had == buckets[apiKey] # NoBucket
        bucket == IF had THEN buckets[apiKey] ELSE NewBucket
        refilled == Refill(bucket)
        restarted == ~had \/ now - bucket.lastRefill >= windowMs
    IN  /\ IF refilled.tokens <= 0
           THEN /\ buckets' = [buckets EXCEPT ![apiKey] = refilled]
                /\ lastCheck' =
                       CheckSeen(apiKey, had, bucket, FALSE, RetryAfterMs(refilled))
                /\ allowedInWindow' =
                       [allowedInWindow EXCEPT ![apiKey] = IF restarted THEN 0 ELSE @]
           ELSE /\ buckets' = [buckets EXCEPT ![apiKey] = Consume(refilled)]
                /\ lastCheck' = CheckSeen(apiKey, had, bucket, TRUE, 0)
                /\ allowedInWindow' =
                       [allowedInWindow EXCEPT ![apiKey] = IF restarted THEN 1 ELSE @ + 1]
        /\ UNCHANGED <<maxRequests, windowMs, now>>

Check(apiKey) ==
    /\ CheckBucket(apiKey)
    /\ UNCHANGED usageVars
    /\ UNCHANGED ledgerVars
    /\ UNCHANGED gatewayVars

Exhaust(apiKey) ==
    /\ buckets' = [buckets EXCEPT ![apiKey] = [tokens |-> 0, lastRefill |-> now]]
    /\ allowedInWindow' = [allowedInWindow EXCEPT ![apiKey] = 0]
    /\ UNCHANGED <<maxRequests, windowMs, now, lastCheck>>
    /\ UNCHANGED usageVars
    /\ UNCHANGED ledgerVars
    /\ UNCHANGED gatewayVars

Reset ==
    /\ buckets' = [k \in ApiKeys |-> NoBucket]
    /\ allowedInWindow' = [k \in ApiKeys |-> 0]
    /\ UNCHANGED <<maxRequests, windowMs, now, lastCheck>>
    /\ UNCHANGED usageVars
    /\ UNCHANGED ledgerVars
    /\ UNCHANGED gatewayVars

Tick ==
    /\ now < MaxTime
    /\ now' = now + 1
    /\ UNCHANGED <<buckets, maxRequests, windowMs, lastCheck, allowedInWindow>>
    /\ UNCHANGED usageVars
    /\ UNCHANGED ledgerVars
    /\ UNCHANGED gatewayVars

RateLimiterInit ==
    /\ buckets = [k \in ApiKeys |-> NoBucket]
    /\ maxRequests \in 0..MaxQuota
    /\ windowMs \in 0..MaxWindow
    /\ now = 0
    /\ lastCheck = NoCheck
    /\ allowedInWindow = [k \in ApiKeys |-> 0]

RateLimiterIdle ==
    /\ buckets = [k \in ApiKeys |-> NoBucket]
    /\ maxRequests = MaxQuota
    /\ windowMs = MaxWindow
    /\ now = 0
    /\ lastCheck = NoCheck
    /\ allowedInWindow = [k \in ApiKeys |-> 0]

(***************************************************************************)
(* BillingService (the idempotent ledger) over the usage_events table and  *)
(* the Soroban settlement client.  The table is a PostgreSQL table with a  *)
(* unique index on request_id: an INSERT that meets an uncommitted row of  *)
(* the same request_id waits for that transaction to end, and one that     *)
(* meets a committed row fails with 23505.                                 *)
(***************************************************************************)
NoLookup ==
    [requestId |-> NoRequest, found |-> FALSE, usageEventId |-> 0,
     stellarTxHash |-> NoHash, alreadyProcessed |-> FALSE]

\* SELECT id, stellar_tx_hash FROM usage_events WHERE request_id = r
FindRows(r) == {row \in rows : row.requestId = r}

FirstRow(r) == CHOOSE row \in FindRows(r) : TRUE

\* The row as the INSERT left it: the UPDATE of the hash is not part of what is
\* committed.
PlaceholderOf(c) == [requestId |-> req[c], id |-> pending[c].id, txHash |-> NoHash]

\* The row a transaction inserted, as it will be committed.
RowOf(c) == [requestId |-> req[c], id |-> pending[c].id, txHash |-> pending[c].txHash]

\* An index that does not see the rows of open transactions: no INSERT waits.
NoOpenInserts(c) == {}

\* The open transactions, other than c's, that inserted c's request_id.
OpenInserts(c) == {d \in Callers \ {c} : pending[d] # NoRow /\ req[d] = req[c]}

\* A unique index that does not look at the request_id: any committed row is a
\* violation.
UniqueOverTable(c) == rows # {}

\* An index that lets a second row of a committed request_id in.
NoUniqueViolation(c) == FALSE

\* 23505: a committed row already holds the request_id.
UniqueViolation(c) == FindRows(req[c]) # {}

\* A handler that commits where it should roll back.
CommitInstead(c) ==
    /\ rows' = IF pending[c] # NoRow THEN rows \cup {RowOf(c)} ELSE rows
    /\ pending' = [pending EXCEPT ![c] = NoRow]

\* ROLLBACK: the transaction's insert is dropped, the committed table stays.
Rollback(c) ==
    /\ rows' = rows
    /\ pending' = [pending EXCEPT ![c] = NoRow]

Failure(c, error, settled) ==
    [requestId |-> req[c], success |-> FALSE, usageEventId |-> 0,
     stellarTxHash |-> NoHash, alreadyProcessed |-> FALSE, error |-> error,
     settled |-> settled, via |-> "failed"]

\* A SELECT that reads the id and leaves the transaction hash out.
ExistingWithoutHash(c, row, via) ==
    [requestId |-> req[c], success |-> TRUE, usageEventId |-> row.id,
     stellarTxHash |-> NoHash, alreadyProcessed |-> TRUE, error |-> "",
     settled |-> FALSE, via |-> via]

Existing(c, row, via) ==
    [requestId |-> req[c], success |-> TRUE, usageEventId |-> row.id,
     stellarTxHash |-> row.txHash, alreadyProcessed |-> TRUE, error |-> "",
     settled |-> FALSE, via |-> via]

Created(c) ==
    [requestId |-> req[c], success |-> TRUE,
     usageEventId |-> pending[c].id, stellarTxHash |-> localTx[c],
     alreadyProcessed |-> FALSE, error |-> "", settled |-> TRUE, via |-> "created"]

\* A handler that reports the winner's row as newly processed.
RaceResultAsNew(c) ==
    [Existing(c, FirstRow(req[c]), "race") EXCEPT !.alreadyProcessed = FALSE]

RaceResult(c) == Existing(c, FirstRow(req[c]), "race")

\* The call returns: its connection is released and its locals are gone.
Return(c, result) ==
    /\ results' = [results EXCEPT ![req[c]] = Append(@, result)]
    /\ pc' = [pc EXCEPT ![c] = "idle"]
    /\ req' = [req EXCEPT ![c] = NoRequest]
    /\ localTx' = [localTx EXCEPT ![c] = NoHash]

\* pool.connect(); BEGIN
Begin(c, r) ==
    /\ pc[c] = "idle"
    /\ started < MaxCalls
    /\ started' = started + 1
    /\ pc' = [pc EXCEPT ![c] = "select"]
    /\ req' = [req EXCEPT ![c] = r]
    /\ localTx' = [localTx EXCEPT ![c] = NoHash]
    /\ serial' = [serial EXCEPT ![r] = @ \/ results[r] # <<>>]
    /\ UNCHANGED <<rows, pending, nextId, settleCalls, txCount, results, lookup>>
    /\ UNCHANGED usageVars
    /\ UNCHANGED rateVars
    /\ UNCHANGED gatewayVars

\* SELECT by request_id; a row found: COMMIT and return it.
Select(c) ==
    /\ pc[c] = "select"
    /\ IF FindRows(req[c]) # {}
       THEN Return(c, Existing(c, FirstRow(req[c]), "existing"))
       ELSE /\ pc' = [pc EXCEPT ![c] = "insert"]
            /\ UNCHANGED <<results, req, localTx>>
    /\ UNCHANGED <<rows, pending, nextId, serial, settleCalls, txCount, started, lookup>>
    /\ UNCHANGED usageVars
    /\ UNCHANGED rateVars
    /\ UNCHANGED gatewayVars

\* INSERT ... RETURNING id; on 23505: ROLLBACK, then the re-query.
Insert(c) ==
    /\ pc[c] = "insert"
    /\ OpenInserts(c) = {}
    /\ nextId' = nextId + 1
    /\ IF UniqueViolation(c)
       THEN /\ pc' = [pc EXCEPT ![c] = "requery"]
            /\ UNCHANGED pending
       ELSE /\ pc' = [pc EXCEPT ![c] = "settle"]
            /\ pending' = [pending EXCEPT ![c] = [id |-> nextId, txHash |-> NoHash]]
    /\ UNCHANGED <<rows, req, localTx, serial, settleCalls, txCount, results, started,
                   lookup>>
    /\ UNCHANGED usageVars
    /\ UNCHANGED rateVars
    /\ UNCHANGED gatewayVars

\* The re-query after the unique violation.
Requery(c) ==
    /\ pc[c] = "requery"
    /\ IF FindRows(req[c]) # {}
       THEN Return(c, RaceResult(c))
       ELSE Return(c, Failure(c, "PersistenceFailure", FALSE))
    /\ UNCHANGED <<rows, pending, nextId, serial, settleCalls, txCount, started, lookup>>
    /\ UNCHANGED usageVars
    /\ UNCHANGED rateVars
    /\ UNCHANGED gatewayVars

\* sorobanClient.deductBalance(userId, amountUsdc): a transaction hash, or a throw,
\* and on a throw ROLLBACK.
Settle(c, ok) ==
    /\ pc[c] = "settle"
    /\ settleCalls' = [settleCalls EXCEPT ![req[c]] = @ + 1]
    /\ IF ok
       THEN /\ txCount' = txCount + 1
            /\ localTx' = [localTx EXCEPT ![c] = txCount + 1]
            /\ pc' = [pc EXCEPT ![c] = "update"]
            /\ UNCHANGED <<rows, pending, results, req>>
       ELSE /\ Rollback(c)
            /\ Return(c, Failure(c, "SettlementFailure", TRUE))
            /\ UNCHANGED txCount
    /\ UNCHANGED <<nextId, serial, started, lookup>>
    /\ UNCHANGED usageVars
    /\ UNCHANGED rateVars
    /\ UNCHANGED gatewayVars

\* UPDATE usage_events SET stellar_tx_hash = ... WHERE id = ...
Update(c) ==
    /\ pc[c] = "update"
    /\ pending' = [pending EXCEPT ![c].txHash = localTx[c]]
    /\ pc' = [pc EXCEPT ![c] = "commit"]
    /\ UNCHANGED <<rows, nextId, req, localTx, serial, settleCalls, txCount, results,
                   started, lookup>>
    /\ UNCHANGED usageVars
    /\ UNCHANGED rateVars
    /\ UNCHANGED gatewayVars

\* COMMIT
Commit(c) ==
    /\ pc[c] = "commit"
    /\ rows' = rows \cup {RowOf(c)}
    /\ pending' = [pending EXCEPT ![c] = NoRow]
    /\ Return(c, Created(c))
    /\ UNCHANGED <<nextId, serial, settleCalls, txCount, started, lookup>>
    /\ UNCHANGED usageVars
    /\ UNCHANGED rateVars
    /\ UNCHANGED gatewayVars

\* A query of the transaction throws (connection lost): ROLLBACK, success = false.
QueryFails(c) ==
    /\ pc[c] \in {"select", "update", "commit"}
    /\ Rollback(c)
    /\ Return(c, Failure(c, "PersistenceFailure", pc[c] # "select"))
    /\ UNCHANGED <<nextId, serial, settleCalls, txCount, started, lookup>>
    /\ UNCHANGED usageVars
    /\ UNCHANGED rateVars
    /\ UNCHANGED gatewayVars

\* A status poll that reads rows no transaction has committed yet.
StatusOfDirty(r) ==
    LET open == {c \in Callers : pending[c] # NoRow /\ req[c] = r}
        seen == FindRows(r) \cup {RowOf(c) : c \in open}
    IN  IF seen # {}
        THEN LET row == CHOOSE x \in seen : TRUE
             IN  [requestId |-> r, found |-> TRUE, usageEventId |-> row.id,
                  stellarTxHash |-> row.txHash, alreadyProcessed |-> TRUE]
        ELSE [NoLookup EXCEPT !.requestId = r]

StatusOf(r) ==
    IF FindRows(r) # {}
    THEN [requestId |-> r, found |-> TRUE, usageEventId |-> FirstRow(r).id,
          stellarTxHash |-> FirstRow(r).txHash, alreadyProcessed |-> TRUE]
    ELSE [NoLookup EXCEPT !.requestId = r]

\* getByRequestId: one pool.query outside any transaction.
GetByRequestId(r) ==
    /\ lookup' = StatusOf(r)
    /\ UNCHANGED <<rows, pending, nextId, pc, req, localTx, serial, settleCalls,
                   txCount, results, started>>
    /\ UNCHANGED usageVars
    /\ UNCHANGED rateVars
    /\ UNCHANGED gatewayVars

LedgerInit ==
    /\ rows = {}
    /\ pending = [c \in Callers |-> NoRow]
    /\ nextId = 1
    /\ pc = [c \in Callers |-> "idle"]
    /\ req = [c \in Callers |-> NoRequest]
    /\ localTx = [c \in Callers |-> NoHash]
    /\ serial = [r \in RequestIds |-> FALSE]
    /\ settleCalls = [r \in RequestIds |-> 0]
    /\ txCount = 0
    /\ results = [r \in RequestIds |-> <<>>]
    /\ started = 0
    /\ lookup = NoLookup

(***************************************************************************)
(* resolveEndpointPrice.  A string is the sequence of its characters; an   *)
(* endpoint is an EndpointPricing record.                                  *)
(***************************************************************************)
Chars == {"/", "a"}
Wildcard == <<"*">>

Strings(n) == UNION {[1..k -> Chars] : k \in 0..n}

Patterns == Strings(MaxPatternLen) \cup {Wildcard}

\* The endpoint lists of at most MaxEndpoints entries; the entry at position
\* i carries endpointId i and price i.
EndpointLists ==
    UNION {{[i \in 1..k |-> [endpointId |-> i, path |-> f[i], priceUsdc |-> i]] :
              f \in [1..k -> Patterns]} : k \in 0..MaxEndpoints}

\* No call made yet.
NotResolved == [endpointId |-> -1, path |-> <<>>, priceUsdc |-> -1]

\* { endpointId: 'default', path: '*', priceUsdc: 0 }; the id 'default' is 0.
DefaultEndpoint == [endpointId |-> 0, path |-> Wildcard, priceUsdc |-> 0]

\* String.prototype.startsWith
StartsWith(s, prefix) ==
    /\ Len(prefix) <= Len(s)
    /\ SubSeq(s, 1, Len(prefix)) = prefix

\* path.startsWith('/') ? path : `/${path}`
Normalise(path) == IF StartsWith(path, <<"/">>) THEN path ELSE <<"/">> \o path

NonWildcard(endpoints) == SelectSeq(endpoints, LAMBDA e : e.path # Wildcard)

\* A sort that puts an element before the equally long ones met earlier.
InsertBeforeEqual(sorted, e) ==
    LET n == Cardinality({i \in 1..Len(sorted) : Len(sorted[i].path) > Len(e.path)})
    IN  SubSeq(sorted, 1, n) \o <<e>> \o SubSeq(sorted, n + 1, Len(sorted))

\* One step of the stable sort by b.path.length - a.path.length: e goes
\* behind every element that is at least as long.
InsertByLength(sorted, e) ==
    LET n == Cardinality({i \in 1..Len(sorted) : Len(sorted[i].path) >= Len(e.path)})
    IN  SubSeq(sorted, 1, n) \o <<e>> \o SubSeq(sorted, n + 1, Len(sorted))

RECURSIVE SortLongestFirst(_)
SortLongestFirst(endpoints) ==
    IF endpoints = <<>>
    THEN <<>>
    ELSE InsertByLength(SortLongestFirst(SubSeq(endpoints, 1, Len(endpoints) - 1)),
                        endpoints[Len(endpoints)])

\* for (const ep of sorted): the first endpoint whose pattern starts the path.
RECURSIVE FirstMatch(_, _)
FirstMatch(sorted, normalised) ==
    IF sorted = <<>>
    THEN NotResolved
    ELSE IF StartsWith(normalised, Normalise(Head(sorted).path))
         THEN Head(sorted)
         ELSE FirstMatch(Tail(sorted), normalised)

\* A resolver that forgets the wildcard entry.
FallbackFree(endpoints) == DefaultEndpoint

\* endpoints.find((e) => e.path === '*'), or the free default.
Fallback(endpoints) ==
    LET wildcards == {i \in 1..Len(endpoints) : endpoints[i].path = Wildcard}
    IN  IF wildcards # {}
        THEN endpoints[CHOOSE i \in wildcards : \A j \in wildcards : i <= j]
        ELSE DefaultEndpoint

ResolveEndpointPrice(endpoints, path) ==
    LET normalised == Normalise(path)
        sorted == SortLongestFirst(NonWildcard(endpoints))
        match == FirstMatch(sorted, normalised)
    IN  IF match # NotResolved THEN match ELSE Fallback(endpoints)

\* One call of resolveEndpointPrice; the sort works on a copy of the list.
ResolvePrice ==
    /\ resolved = NotResolved
    /\ resolved' = ResolveEndpointPrice(endpointList, requestPath)
    /\ endpointList' = endpointList
    /\ UNCHANGED <<requestPath, passed>>
    /\ UNCHANGED proxyVars
    /\ UNCHANGED usageVars
    /\ UNCHANGED rateVars
    /\ UNCHANGED ledgerVars
    /\ UNCHANGED sideVars

PricingInit ==
    /\ endpointList \in EndpointLists
    /\ requestPath \in Strings(MaxPathLen)
    /\ resolved = NotResolved
    /\ passed = endpointList

PricingIdle ==
    /\ endpointList = <<>>
    /\ requestPath = <<>>
    /\ resolved = NotResolved
    /\ passed = <<>>

(***************************************************************************)
(* The registry, the key map and MockSorobanBilling, as the proxy router   *)
(* is given them.  Amounts are whole units of the smallest price step.     *)
(***************************************************************************)
ApiEntries ==
    {[id |-> "api1", slug |-> "slug1", developerId |-> "dev1",
      endpoints |-> <<[endpointId |-> 1, path |-> <<"/", "a">>, priceUsdc |-> 2],
                      [endpointId |-> 2, path |-> <<"/", "a", "a">>, priceUsdc |-> 0]>>],
     [id |-> "api2", slug |-> "slug2", developerId |-> "dev2", endpoints |-> <<>>]}

NoEntry == [id |-> "none", slug |-> "none", developerId |-> "none", endpoints |-> <<>>]

ApiSlugOrIds == {"slug1", "api2", "unknown"}

\* A registry that answers an unknown slug with an entry all the same.
ResolveAny(slugOrId) ==
    IF \E e \in ApiEntries : e.id = slugOrId \/ e.slug = slugOrId
    THEN CHOOSE e \in ApiEntries : e.id = slugOrId \/ e.slug = slugOrId
    ELSE CHOOSE e \in ApiEntries : e.id = "api1"

\* this.byId.get(slugOrId) ?? this.bySlug.get(slugOrId)
Resolve(slugOrId) ==
    IF \E e \in ApiEntries : e.id = slugOrId
    THEN CHOOSE e \in ApiEntries : e.id = slugOrId
    ELSE IF \E e \in ApiEntries : e.slug = slugOrId
         THEN CHOOSE e \in ApiEntries : e.slug = slugOrId
         ELSE NoEntry

KeyRecords ==
    {[key |-> "keyA", developerId |-> "dev1", apiId |-> "api1"],
     [key |-> "keyB", developerId |-> "dev2", apiId |-> "api2"]}

NoKey == [key |-> "none", developerId |-> "none", apiId |-> "none"]

\* The x-api-key headers a request may carry; NoRequest is a request without one.
Headers == ApiKeys \cup {"keyX", NoRequest}

\* apiKeys.get(apiKeyHeader)
GetKey(header) ==
    IF \E k \in KeyRecords : k.key = header
    THEN CHOOSE k \in KeyRecords : k.key = header
    ELSE NoKey

\* A check that takes any registered key, whatever API it was issued for.
KeyKnown(keyRecord, apiEntry) == keyRecord # NoKey

\* !(!keyRecord || keyRecord.apiId !== apiEntry.id)
KeyValid(keyRecord, apiEntry) == keyRecord # NoKey /\ keyRecord.apiId = apiEntry.id

\* this.balances.get(developerId) ?? 0
CheckBalance(developerId) == balances[developerId]

\* A pre-check that puts a hold of one unit on the balance it reads.
BalancesAfterHold(developerId) ==
    [balances EXCEPT ![developerId] = IF @ > 0 THEN @ - 1 ELSE @]

\* checkBalance reads the map and writes nothing.
BalancesAfterCheck(developerId) == balances

\* A contract that takes the amount whether or not the balance covers it.
Overdraw(developerId, amount) == [balances EXCEPT ![developerId] = @ - amount]

DeductCredit(developerId, amount) ==
    IF balances[developerId] < amount
    THEN balances
    ELSE [balances EXCEPT ![developerId] = @ - amount]

\* BillingResult.success: !(current < amount)
DeductSucceeds(developerId, amount) == ~(balances[developerId] < amount)

\* A default predicate that takes every status.
AnyStatus(code) == TRUE

\* (code) => code >= 200 && code < 300
DefaultRecordable(code) == code >= 200 /\ code < 300

\* config.recordableStatuses(upstreamStatus)
Recordable(code) ==
    IF recordableStatuses = "default" THEN DefaultRecordable(code) ELSE TRUE

\* A background task that calls deductCredit for free endpoints too.
DeductAlways(recorded, endpoint) == recorded

\* recorded && endpoint.priceUsdc > 0
ShouldDeduct(recorded, endpoint) == recorded /\ endpoint.priceUsdc > 0

(***************************************************************************)
(* handleProxy.  Everything up to the await of fetch runs without another  *)
(* handler in between (checkBalance reads the map when it is called), so   *)
(* stages 1 to 4 are one action; the upstream's answer is a second one and *)
(* the setImmediate task a third.                                          *)
(***************************************************************************)
RequestPaths == {<<"a">>, <<"a", "a">>}

UpstreamStatuses == {200, 500}

\* What fetch and the body stream may do: a full response, a rejection
\* before any response (AbortSignal timeout, connect timeout, any other
\* failure), or a failure of the body stream after the status line and a
\* first chunk went out to the caller.
\* With a response the upstream may send an x-request-id header of its own.
\* The client may go away while the body is streamed to it (ClientGone).
UpstreamRequestId == 99

Outcomes ==
    {[kind |-> k, status |-> st, xRequestId |-> x] :
        k \in {"Response", "BodyFailed", "ClientGone"}, st \in UpstreamStatuses,
        x \in {0, UpstreamRequestId}}
    \cup {[kind |-> k, status |-> 0, xRequestId |-> 0] :
        k \in {"TimeoutError", "ConnectTimeout", "FetchFailed"}}

IdleHandler ==
    [pc |-> "idle", requestId |-> 0, apiSlugOrId |-> NoRequest,
     apiKeyHeader |-> NoRequest, keyRecord |-> NoKey, apiId |-> NoRequest,
     endpoint |-> NotResolved, upstreamStatus |-> 0, forwardedRequestId |-> 0,
     xRequestId |-> 0]

NoResponse ==
    [requestId |-> 0, apiSlugOrId |-> NoRequest, apiKeyHeader |-> NoRequest,
     stages |-> <<>>, status |-> 0, error |-> "", balanceOnArrival |-> 0,
     upstream |-> NoRequest, endpoint |-> NotResolved, xRequestId |-> 0,
     forwardedRequestId |-> 0, route |-> NoRequest]

AllStages == <<"ResolveApi", "ValidateKey", "RateLimitCheck", "BalanceCheck", "Forward">>

\* res.status(status).json({ error, requestId }): an answer given before the
\* request is forwarded, with the stages that ran and the balance of the
\* key's developer when the request came in.  The requestId is in the body;
\* no x-request-id header is set (0).
Response(request, status, error, stages, balance) ==
    [requestId |-> request.requestId, apiSlugOrId |-> request.apiSlugOrId,
     apiKeyHeader |-> request.apiKeyHeader, stages |-> stages, status |-> status,
     error |-> error, balanceOnArrival |-> balance, upstream |-> NoRequest,
     endpoint |-> NotResolved, xRequestId |-> 0, forwardedRequestId |-> 0,
     route |-> "proxy"]

\* The answer to a forwarded request, with what the upstream did, the
\* x-request-id header of the answer and the one the upstream was sent.
Forwarded(request, status, error, kind, xRequestId) ==
    [requestId |-> request.requestId, apiSlugOrId |-> request.apiSlugOrId,
     apiKeyHeader |-> request.apiKeyHeader, stages |-> AllStages, status |-> status,
     error |-> error, balanceOnArrival |-> 0, upstream |-> kind,
     endpoint |-> request.endpoint, xRequestId |-> xRequestId,
     forwardedRequestId |-> request.forwardedRequestId, route |-> "proxy"]

\* An id generator that hands out the last id again.
SameUUID == IF issued = 0 THEN 1 ELSE issued

\* randomUUID(): an id no earlier call was given
RandomUUID == issued + 1

\* A forwarder that makes a second id for the upstream's header.
SeparateRequestId(requestId) == requestId + MaxProxyCalls

\* forwardHeaders['x-request-id'] = requestId
ForwardedRequestId(requestId) == requestId

\* A response that keeps the x-request-id header the upstream sent.
UpstreamHeaderWins(upstreamHeader, requestId) ==
    IF upstreamHeader # 0 THEN upstreamHeader ELSE requestId

\* The upstream's headers are copied, then res.set('x-request-id', requestId).
ResponseRequestId(upstreamHeader, requestId) == requestId

\* A catch block that answers every failure with 502.
BadGatewayAlways(kind) == 502

\* The catch block: 504 for the two timeouts, 502 for anything else.
StatusOfError(kind) ==
    IF kind = "TimeoutError" \/ kind = "ConnectTimeout" THEN 504 ELSE 502

ErrorOfStatus(status) ==
    IF status = 504 THEN "Gateway Timeout" ELSE "Bad Gateway: upstream unreachable"

\* Stages 1 to 4 of a request, and the start of the fetch.  The invocations
\* are interchangeable: a request takes the first free one.
Receive(h, apiSlugOrId, apiKeyHeader, wildcardPath) ==
    /\ handler[h].pc = "idle"
    /\ \A g \in Handlers : handler[g].pc = "idle" => h <= g
    /\ issued < MaxProxyCalls
    /\ issued' = issued + 1
    /\ LET apiEntry == Resolve(apiSlugOrId)
           keyRecord == GetKey(apiKeyHeader)
           balance == IF keyRecord # NoKey THEN balances[keyRecord.developerId] ELSE 0
           request == [IdleHandler EXCEPT !.requestId = RandomUUID,
                                          !.apiSlugOrId = apiSlugOrId,
                                          !.apiId = apiEntry.id,
                                          !.apiKeyHeader = apiKeyHeader]
       IN  IF apiEntry = NoEntry
           THEN /\ lastResponse' = Response(request, 404, "Not Found: unknown API",
                                            SubSeq(AllStages, 1, 1), balance)
                /\ UNCHANGED <<rateVars, balances, handler>>
           ELSE IF apiKeyHeader = NoRequest
           THEN /\ lastResponse' =
                       Response(request, 401, "Unauthorized: missing x-api-key header",
                                SubSeq(AllStages, 1, 2), balance)
                /\ UNCHANGED <<rateVars, balances, handler>>
           ELSE IF ~KeyValid(keyRecord, apiEntry)
           THEN /\ lastResponse' =
                       Response(request, 401, "Unauthorized: invalid API key",
                                SubSeq(AllStages, 1, 2), balance)
                /\ UNCHANGED <<rateVars, balances, handler>>
           ELSE /\ CheckBucket(apiKeyHeader)
                /\ IF ~lastCheck'.allowed
                   THEN /\ lastResponse' = Response(request, 429, "Too Many Requests",
                                                    SubSeq(AllStages, 1, 3), balance)
                        /\ UNCHANGED <<balances, handler>>
                   ELSE /\ balances' = BalancesAfterCheck(keyRecord.developerId)
                        /\ IF CheckBalance(keyRecord.developerId) <= 0
                           THEN /\ lastResponse' =
                                       Response(request, 402,
                                                "Payment Required: insufficient balance",
                                                SubSeq(AllStages, 1, 4), balance)
                                /\ UNCHANGED handler
                           ELSE /\ handler' = [handler EXCEPT ![h] =
                                       [request EXCEPT
                                           !.pc = "forward",
                                           !.keyRecord = keyRecord,
                                           !.forwardedRequestId =
                                               ForwardedRequestId(request.requestId),
                                           !.endpoint = ResolveEndpointPrice(
                                               apiEntry.endpoints, wildcardPath)]]
                                /\ UNCHANGED lastResponse
    /\ UNCHANGED <<recordableStatuses, deductLog>>
    /\ UNCHANGED pricingVars
    /\ UNCHANGED usageVars
    /\ UNCHANGED ledgerVars
    /\ UNCHANGED sideVars

\* fetch settles and the response goes out; then step 8 decides on the
\* background task.  A body stream that fails after the first chunk was
\* written makes res.set throw in the catch block: the handler ends there,
\* before step 8.  When the client has gone away, res.write drops the chunks
\* without an exception and the pump runs to its end like any other.
Upstream(h, outcome) ==
    /\ handler[h].pc = "forward"
    /\ IF outcome.kind = "BodyFailed"
       THEN /\ handler' = [handler EXCEPT ![h] = IdleHandler]
            /\ lastResponse' =
                   Forwarded(handler[h], outcome.status, "", outcome.kind,
                             ResponseRequestId(outcome.xRequestId,
                                               handler[h].requestId))
       ELSE LET upstreamStatus ==
                    IF outcome.kind \in {"Response", "ClientGone"}
                    THEN outcome.status
                    ELSE StatusOfError(outcome.kind)
            IN  /\ handler' = [handler EXCEPT ![h] =
                       IF Recordable(upstreamStatus)
                       THEN [@ EXCEPT !.pc = "record",
                                      !.upstreamStatus = upstreamStatus,
                                      !.xRequestId =
                                          IF outcome.kind \in {"Response", "ClientGone"}
                                          THEN ResponseRequestId(outcome.xRequestId,
                                                                 handler[h].requestId)
                                          ELSE handler[h].requestId]
                       ELSE IdleHandler]
                /\ lastResponse' =
                       Forwarded(handler[h], upstreamStatus,
                                 IF outcome.kind \in {"Response", "ClientGone"}
                                 THEN ""
                                 ELSE ErrorOfStatus(upstreamStatus),
                                 outcome.kind,
                                 IF outcome.kind \in {"Response", "ClientGone"}
                                 THEN ResponseRequestId(outcome.xRequestId,
                                                        handler[h].requestId)
                                 ELSE handler[h].requestId)
    /\ UNCHANGED <<balances, recordableStatuses, issued, deductLog>>
    /\ UNCHANGED pricingVars
    /\ UNCHANGED usageVars
    /\ UNCHANGED rateVars
    /\ UNCHANGED ledgerVars
    /\ UNCHANGED sideVars

\* The usage event the background task builds.
EventOf(request) ==
    [requestId |-> request.requestId, apiKey |-> request.apiKeyHeader,
     apiKeyId |-> request.keyRecord.key, apiId |-> request.apiId,
     endpointId |-> request.endpoint.endpointId,
     userId |-> request.keyRecord.developerId,
     amountUsdc |-> request.endpoint.priceUsdc,
     statusCode |-> request.upstreamStatus]

\* A background task that turns the delivered response into a 500 when the
\* deduction did not go through.
SurfaceFailure(response, success) ==
    IF success THEN response ELSE [response EXCEPT !.status = 500]

\* The task holds no reference to res: the response stays as it went out.
ResponseAfterTask(response, success) == response

\* The setImmediate task: usageStore.record, then deductCredit (which runs
\* to its end when it is called) if the event was new and the price is not 0.
RecordUsage(h) ==
    /\ handler[h].pc = "record"
    /\ LET request == handler[h]
           event == EventOf(request)
           recorded == ~IsDuplicate(event)
           deduct == ShouldDeduct(recorded, request.endpoint)
       IN  /\ RecordEvent(event)
           /\ balances' = IF deduct
                          THEN DeductCredit(request.keyRecord.developerId,
                                            request.endpoint.priceUsdc)
                          ELSE balances
           /\ deductLog' =
                  IF deduct
                  THEN Append(deductLog,
                           [requestId |-> request.requestId,
                            developerId |-> request.keyRecord.developerId,
                            amount |-> request.endpoint.priceUsdc,
                            before |-> balances[request.keyRecord.developerId],
                            after |-> balances'[request.keyRecord.developerId]])
                  ELSE deductLog
           /\ lastResponse' =
                  ResponseAfterTask(lastResponse,
                      ~deduct \/ DeductSucceeds(request.keyRecord.developerId,
                                                request.endpoint.priceUsdc))
    /\ handler' = [handler EXCEPT ![h] = IdleHandler]
    /\ UNCHANGED <<recordableStatuses, issued>>
    /\ UNCHANGED pricingVars
    /\ UNCHANGED rateVars
    /\ UNCHANGED ledgerVars
    /\ UNCHANGED sideVars

\* new MockSorobanBilling(initialBalances), createProxyRouter(deps)
ProxyInit ==
    /\ balances \in {[d \in Developers |-> IF d = "dev1" THEN b ELSE MaxBalance] :
                       b \in 0..MaxBalance}
    /\ recordableStatuses \in {"default", "all"}
    /\ handler = [h \in Handlers |-> IdleHandler]
    /\ issued = 0
    /\ lastResponse = NoResponse
    /\ deductLog = <<>>

ProxyIdle ==
    /\ balances = [d \in Developers |-> 0]
    /\ recordableStatuses = "default"
    /\ handler = [h \in Handlers |-> IdleHandler]
    /\ issued = 0
    /\ lastResponse = NoResponse
    /\ deductLog = <<>>

\* new InMemoryRateLimiter(maxRequests, windowMs) with a quota of at least 1
ProxyRateInit ==
    /\ buckets = [k \in ApiKeys |-> NoBucket]
    /\ maxRequests \in {1, MaxQuota}
    /\ windowMs = MaxWindow
    /\ now = 0
    /\ lastCheck = NoCheck
    /\ allowedInWindow = [k \in ApiKeys |-> 0]

(***************************************************************************)
(* The legacy gateway route, /api/gateway/:apiId, mounted next to the      *)
(* proxy over the same billing, rate limiter, usage store and key map.     *)
(* The credit is taken before the fetch; the usage event is recorded when  *)
(* the fetch has settled, whatever it brought.                             *)
(***************************************************************************)
CREDIT_COST_PER_CALL == 1

\* endpointId: 'legacy'
LegacyEndpointId == 3

LegacyApiIds == {"api1", "unknown"}

LegacyStages == <<"ValidateKey", "RateLimitCheck", "Deduct", "Forward">>

\* What the legacy fetch may do: a response, a rejection of fetch, or a
\* rejection of upstreamRes.text().
LegacyOutcomes ==
    {o \in Outcomes : o.kind \in {"Response", "BodyFailed", "FetchFailed"}
                        /\ o.xRequestId = 0}

LegacyResponse(request, status, error, stages, balance, kind) ==
    [requestId |-> request.requestId, apiSlugOrId |-> request.apiSlugOrId,
     apiKeyHeader |-> request.apiKeyHeader, stages |-> stages, status |-> status,
     error |-> error, balanceOnArrival |-> balance, upstream |-> kind,
     endpoint |-> NotResolved, xRequestId |-> 0, forwardedRequestId |-> 0,
     route |-> "legacy"]

\* A route that records successful calls only.
LegacyRecordsSuccess(code) == code >= 200 /\ code < 300

\* usageStore.record is called for every final status.
LegacyRecords(code) == TRUE

\* Stages 1 to 3 of a legacy request, and the start of the fetch.  The
\* requestId of the usage event, drawn in the route when the event is built,
\* is given to the invocation here: ids are only compared for equality.
LegacyReceive(h, apiId, apiKeyHeader) ==
    /\ handler[h].pc = "idle"
    /\ \A g \in Handlers : handler[g].pc = "idle" => h <= g
    /\ issued < MaxProxyCalls
    /\ issued' = issued + 1
    /\ LET keyRecord == GetKey(apiKeyHeader)
           balance == IF keyRecord # NoKey THEN balances[keyRecord.developerId] ELSE 0
           request == [IdleHandler EXCEPT !.requestId = RandomUUID,
                                          !.apiSlugOrId = apiId,
                                          !.apiKeyHeader = apiKeyHeader]
       IN  IF apiKeyHeader = NoRequest
           THEN /\ lastResponse' =
                       LegacyResponse(request, 401,
                                      "Unauthorized: missing x-api-key header",
                                      SubSeq(LegacyStages, 1, 1), balance, NoRequest)
                /\ UNCHANGED <<rateVars, balances, handler, deductLog>>
           ELSE IF ~KeyValid(keyRecord, [id |-> apiId])
           THEN /\ lastResponse' =
                       LegacyResponse(request, 401, "Unauthorized: invalid API key",
                                      SubSeq(LegacyStages, 1, 1), balance, NoRequest)
                /\ UNCHANGED <<rateVars, balances, handler, deductLog>>
           ELSE /\ CheckBucket(apiKeyHeader)
                /\ IF ~lastCheck'.allowed
                   THEN /\ lastResponse' =
                               LegacyResponse(request, 429, "Too Many Requests",
                                              SubSeq(LegacyStages, 1, 2), balance,
                                              NoRequest)
                        /\ UNCHANGED <<balances, handler, deductLog>>
                   ELSE /\ balances' = DeductCredit(keyRecord.developerId,
                                                    CREDIT_COST_PER_CALL)
                        /\ deductLog' = Append(deductLog,
                               [requestId |-> request.requestId,
                                developerId |-> keyRecord.developerId,
                                amount |-> CREDIT_COST_PER_CALL,
                                before |-> balances[keyRecord.developerId],
                                after |-> balances'[keyRecord.developerId]])
                        /\ IF ~DeductSucceeds(keyRecord.developerId,
                                              CREDIT_COST_PER_CALL)
                           THEN /\ lastResponse' =
                                       LegacyResponse(request, 402,
                                           "Payment Required: insufficient balance",
                                           SubSeq(LegacyStages, 1, 3), balance,
                                           NoRequest)
                                /\ UNCHANGED handler
                           ELSE /\ handler' = [handler EXCEPT ![h] =
                                       [request EXCEPT !.pc = "legacy",
                                                       !.keyRecord = keyRecord,
                                                       !.apiId = keyRecord.apiId]]
                                /\ UNCHANGED lastResponse
    /\ UNCHANGED recordableStatuses
    /\ UNCHANGED pricingVars
    /\ UNCHANGED usageVars
    /\ UNCHANGED ledgerVars
    /\ UNCHANGED sideVars

\* The usage event of the legacy route.
LegacyEventOf(request, upstreamStatus) ==
    [requestId |-> request.requestId, apiKey |-> request.apiKeyHeader,
     apiKeyId |-> request.keyRecord.key, apiId |-> request.keyRecord.apiId,
     endpointId |-> LegacyEndpointId, userId |-> request.keyRecord.developerId,
     amountUsdc |-> CREDIT_COST_PER_CALL, statusCode |-> upstreamStatus]

\* Steps 4 to 6: the fetch settles (a rejection of fetch or of text() is a
\* 502), the event is recorded, the response goes out.
LegacyUpstream(h, outcome) ==
    /\ handler[h].pc = "legacy"
    /\ LET upstreamStatus == IF outcome.kind = "Response" THEN outcome.status ELSE 502
       IN  /\ IF LegacyRecords(upstreamStatus)
              THEN RecordEvent(LegacyEventOf(handler[h], upstreamStatus))
              ELSE UNCHANGED usageVars
           /\ lastResponse' =
                  LegacyResponse(handler[h], upstreamStatus,
                                 IF outcome.kind = "Response" THEN ""
                                 ELSE "Bad Gateway: upstream unreachable",
                                 LegacyStages, 0, outcome.kind)
    /\ handler' = [handler EXCEPT ![h] = IdleHandler]
    /\ UNCHANGED <<balances, recordableStatuses, issued, deductLog>>
    /\ UNCHANGED pricingVars
    /\ UNCHANGED rateVars
    /\ UNCHANGED ledgerVars
    /\ UNCHANGED sideVars

\* index.ts: both routers over one billing service, one rate limiter and one
\* usage store; the proxy keeps its default recordable predicate.
GatewayInit ==
    /\ ProxyInit
    /\ recordableStatuses = "default"

(***************************************************************************)
(* The health check: determineOverallStatus over the component checks, and *)
(* GET /api/health, which answers with what performHealthCheck returns.    *)
(***************************************************************************)
ComponentStatuses == {"ok", "degraded", "down"}

\* An optional component that is not configured has no entry in checks.
Absent == "absent"

Components == {"api", "database", "soroban_rpc", "horizon"}

HealthChecks ==
    [api : ComponentStatuses, database : ComponentStatuses,
     soroban_rpc : ComponentStatuses \cup {Absent},
     horizon : ComponentStatuses \cup {Absent}]

\* Object.values(checks)
AllStatuses(checks) == {checks[c] : c \in {d \in Components : checks[d] # Absent}}

\* A rule that reports 'down' as soon as any component is down.
DownIfAnyDown(checks) ==
    IF "down" \in AllStatuses(checks) THEN "down"
    ELSE IF "degraded" \in AllStatuses(checks) THEN "degraded"
    ELSE "ok"

DetermineOverallStatus(checks) ==
    IF checks.api = "down" \/ checks.database = "down" THEN "down"
    ELSE IF "degraded" \in AllStatuses(checks) \/ "down" \in AllStatuses(checks)
         THEN "degraded"
    ELSE "ok"

\* healthStatus.status === 'down' ? 503 : 200
HealthStatusCode(status) == IF status = "down" THEN 503 ELSE 200

\* determineOverallStatus called on checks of any shape.
DetermineStatus ==
    /\ health.status = NoRequest
    /\ health' = [health EXCEPT !.status = DetermineOverallStatus(health.checks)]
    /\ UNCHANGED <<usageVars, rateVars, ledgerVars, pricingVars, proxyVars, headers>>

\* GET /api/health with a health check configuration: performHealthCheck
\* reports the api itself as 'ok', puts in what the component checks found,
\* and the route answers 503 for an overall 'down' and 200 otherwise.
GetHealth ==
    /\ health.statusCode = 0
    /\ health.checks.api = "ok"
    /\ LET status == DetermineOverallStatus(health.checks)
       IN  health' = [health EXCEPT !.status = status,
                                    !.statusCode = HealthStatusCode(status)]
    /\ UNCHANGED <<usageVars, rateVars, ledgerVars, pricingVars, proxyVars, headers>>

HealthInit ==
    health \in [checks : HealthChecks, status : {NoRequest}, statusCode : {0}]

HealthIdle ==
    health = [checks |-> [api |-> "ok", database |-> "ok", soroban_rpc |-> Absent,
                          horizon |-> Absent],
              status |-> NoRequest, statusCode |-> 0]


(***************************************************************************)
(* Step 6 of handleProxy: the headers of the outbound request.  A header   *)
(* name is its lower-case spelling and whether the client wrote it in      *)
(* capitals; Node's parser hands req.headers over with lower-case keys.    *)
(***************************************************************************)
\* The deny-list without the credential header.
HopByHopOnly ==
    {"host", "connection", "keep-alive", "transfer-encoding", "te", "trailer",
     "upgrade", "proxy-authorization", "proxy-connection"}

DEFAULT_STRIP_HEADERS ==
    {"host", "x-api-key", "connection", "keep-alive", "transfer-encoding", "te",
     "trailer", "upgrade", "proxy-authorization", "proxy-connection"}

\* The names a client may send.
HeaderNames ==
    {"host", "x-api-key", "connection", "keep-alive", "transfer-encoding", "te",
     "trailer", "upgrade", "proxy-authorization", "proxy-connection",
     "x-request-id", "x-custom", "set-cookie"}

\* set-cookie is the one header req.headers holds as an array.
MultiValued == "array"

HeaderValues == {"v1", "v2"}

GeneratedUUID == "uuid"

\* A header as the client wrote it; set-cookie carries the array.
WireHeader(n, capitals, value) ==
    [name |-> [lower |-> n, capitals |-> capitals],
     value |-> IF n = "set-cookie" THEN MultiValued ELSE value]

\* The header sets a request may carry: at most max headers, no name twice.
InboundHeaders(max) ==
    UNION {{{WireHeader(n, f[n][1], f[n][2]) : n \in ns} :
               f \in [ns -> BOOLEAN \X HeaderValues]} :
           ns \in {x \in SUBSET HeaderNames : Cardinality(x) <= max}}

\* String.prototype.toLowerCase
ToLowerCase(name) == [name EXCEPT !.capitals = FALSE]

\* req.headers: the parser's object, keyed by the lower-case names
ReqHeaders(wire) == {[name |-> ToLowerCase(h.name), value |-> h.value] : h \in wire}

\* new Set(config.stripHeaders.map((h) => h.toLowerCase()))
StripSet == {ToLowerCase([lower |-> n, capitals |-> FALSE]) : n \in DEFAULT_STRIP_HEADERS}

\* forwardHeaders[key] = value
SetHeader(forwardHeaders, key, value) ==
    {h \in forwardHeaders : h.name # key} \cup {[name |-> key, value |-> value]}

\* The loop over Object.entries(req.headers), then the x-request-id.
ForwardHeaders(wire, requestId) ==
    LET copied == {h \in ReqHeaders(wire) :
                      /\ ToLowerCase(h.name) \notin StripSet
                      /\ h.value # MultiValued}
    IN  SetHeader(copied, [lower |-> "x-request-id", capitals |-> FALSE], requestId)

BuildForwardHeaders ==
    /\ ~headers.built
    /\ headers' = [headers EXCEPT
                      !.forwardHeaders = ForwardHeaders(headers.inbound, GeneratedUUID),
                      !.built = TRUE]
    /\ UNCHANGED <<usageVars, rateVars, ledgerVars, pricingVars, proxyVars, health>>

HeadersInit ==
    headers \in [inbound : InboundHeaders(MaxHeaders), forwardHeaders : {{}}, built : {FALSE}]

HeadersIdle == headers = [inbound |-> {}, forwardHeaders |-> {}, built |-> FALSE]

SideIdle == HealthIdle /\ HeadersIdle

(***************************************************************************)
(* Specifications, one per component.                                      *)
(***************************************************************************)
UsageInit == UsageStoreInit /\ RateLimiterIdle /\ LedgerInit /\ PricingIdle /\ ProxyIdle /\ SideIdle

UsageNext ==
    \/ \E event \in UsageEvents : Record(event)
    \/ Clear

UsageSpec == UsageInit /\ [][UsageNext]_vars

RateInit == UsageStoreInit /\ RateLimiterInit /\ LedgerInit /\ PricingIdle /\ ProxyIdle /\ SideIdle

RateNext ==
    \/ \E apiKey \in ApiKeys : Check(apiKey)
    \/ \E apiKey \in ApiKeys : Exhaust(apiKey)
    \/ Reset
    \/ Tick

RateSpec == RateInit /\ [][RateNext]_vars

BillingInit == UsageStoreInit /\ RateLimiterIdle /\ LedgerInit /\ PricingIdle /\ ProxyIdle /\ SideIdle

BillingNext ==
    \/ \E c \in Callers, r \in RequestIds : Begin(c, r)
    \/ \E c \in Callers : Select(c)
    \/ \E c \in Callers : Insert(c)
    \/ \E c \in Callers : Requery(c)
    \/ \E c \in Callers, ok \in BOOLEAN : Settle(c, ok)
    \/ \E c \in Callers : Update(c)
    \/ \E c \in Callers : Commit(c)
    \/ \E c \in Callers : QueryFails(c)

BillingSpec == BillingInit /\ [][BillingNext]_vars

\* The ledger with status polls going on beside the deduct calls.
StatusNext ==
    \/ \E c \in Pollers, r \in RequestIds : Begin(c, r)
    \/ \E c \in Pollers : Select(c)
    \/ \E c \in Pollers : Insert(c)
    \/ \E c \in Pollers : Requery(c)
    \/ \E c \in Pollers, ok \in BOOLEAN : Settle(c, ok)
    \/ \E c \in Pollers : Update(c)
    \/ \E c \in Pollers : Commit(c)
    \/ \E c \in Pollers : QueryFails(c)
    \/ \E r \in RequestIds : GetByRequestId(r)

StatusSpec == BillingInit /\ [][StatusNext]_vars

PricingSpecInit == UsageStoreInit /\ RateLimiterIdle /\ LedgerInit /\ PricingInit /\ ProxyIdle /\ SideIdle

PricingNext == ResolvePrice

PricingSpec == PricingSpecInit /\ [][PricingNext]_vars

ProxySpecInit == UsageStoreInit /\ ProxyRateInit /\ LedgerInit /\ PricingIdle /\ ProxyInit /\ SideIdle

ProxyNext ==
    \/ \E h \in Handlers, apiSlugOrId \in ApiSlugOrIds, apiKeyHeader \in Headers,
          wildcardPath \in RequestPaths :
           Receive(h, apiSlugOrId, apiKeyHeader, wildcardPath)
    \/ \E h \in Handlers, outcome \in Outcomes : Upstream(h, outcome)
    \/ \E h \in Handlers : RecordUsage(h)

ProxySpec == ProxySpecInit /\ [][ProxyNext]_vars

\* The proxy with the deadline of the fetch: AbortSignal.timeout(timeoutMs)
\* makes every fetch, and every read of its body, settle (with a response, a
\* failure or the TimeoutError), so a handler does not stay at its await.
UpstreamSettles ==
    \A h \in Handlers : WF_vars(\E outcome \in Outcomes : Upstream(h, outcome))

\* The proxy as index.ts sets it up (the default recordable statuses), with a
\* developer with or without funds.
ProxyLiveInit ==
    /\ ProxySpecInit
    /\ recordableStatuses = "default"
    /\ balances["dev1"] \in {0, MaxBalance}

ProxyLiveSpec == ProxyLiveInit /\ [][ProxyNext]_vars /\ UpstreamSettles

GatewaySpecInit ==
    /\ UsageStoreInit /\ ProxyRateInit /\ LedgerInit /\ PricingIdle /\ GatewayInit
    /\ SideIdle

GatewayNext ==
    \/ \E h \in Handlers, apiSlugOrId \in ApiSlugOrIds, apiKeyHeader \in Headers,
          wildcardPath \in RequestPaths :
           Receive(h, apiSlugOrId, apiKeyHeader, wildcardPath)
    \/ \E h \in Handlers, outcome \in Outcomes : Upstream(h, outcome)
    \/ \E h \in Handlers : RecordUsage(h)
    \/ \E h \in Handlers, apiId \in LegacyApiIds, apiKeyHeader \in Headers :
           LegacyReceive(h, apiId, apiKeyHeader)
    \/ \E h \in Handlers, outcome \in LegacyOutcomes : LegacyUpstream(h, outcome)

GatewaySpec == GatewaySpecInit /\ [][GatewayNext]_vars

HealthSpecInit ==
    /\ UsageStoreInit /\ RateLimiterIdle /\ LedgerInit /\ PricingIdle /\ ProxyIdle
    /\ HealthInit /\ HeadersIdle

HealthNext ==
    \/ DetermineStatus
    \/ GetHealth

HealthSpec == HealthSpecInit /\ [][HealthNext]_vars

HeadersSpecInit ==
    /\ UsageStoreInit /\ RateLimiterIdle /\ LedgerInit /\ PricingIdle /\ ProxyIdle
    /\ HealthIdle /\ HeadersInit

HeadersNext == BuildForwardHeaders

HeadersSpec == HeadersSpecInit /\ [][HeadersNext]_vars

(***************************************************************************)
(* Properties.                                                             *)
(***************************************************************************)
Results(r) == {results[r][i] : i \in 1..Len(results[r])}

InFlight(r) == {c \in Callers : pc[c] # "idle" /\ req[c] = r}

\* The deduct calls for r that called deductBalance and then returned a failure.
FailedAfterSettle(r) ==
    {i \in 1..Len(results[r]) : ~results[r][i].success /\ results[r][i].settled}

\* C1, as claimed: for each requestId deductBalance is executed at most once,
\* whatever the retries and the interleaving of the deduct calls.
C1_SettledAtMostOnce == \A r \in RequestIds : settleCalls[r] <= 1

\* C1, amended: for each requestId deductBalance is executed at most once more
\* than the number of deduct calls for it that failed after calling it (their
\* transaction was rolled back, so a retry settles again); with a row committed
\* for the requestId exactly one execution was not followed by such a failure.
C1_SettledOncePerRolledBackCall ==
    \A r \in RequestIds :
        /\ settleCalls[r] <= 1 + Cardinality(FailedAfterSettle(r))
        /\ FindRows(r) # {} => settleCalls[r] = 1 + Cardinality(FailedAfterSettle(r))

\* C1 witness: a settlement failed, the retry settled again and committed, and a
\* further retry found the row.
C1_Witness ==
    \E r \in RequestIds :
        /\ settleCalls[r] = 2
        /\ Cardinality(FailedAfterSettle(r)) = 1
        /\ FindRows(r) # {}
        /\ \E x \in Results(r) : x.via = "existing"

\* C2: when the first deduct call finished for a requestId succeeds and the next
\* one succeeds too, the first reports alreadyProcessed = false, the second
\* reports alreadyProcessed = true and makes no settlement call, both return the
\* same usageEventId and the same txHash, and deductBalance ran exactly once.
C2_SecondCallReturnsFirstResult ==
    \A r \in RequestIds :
        LET h == results[r]
        IN  (Len(h) >= 2 /\ h[1].success /\ h[2].success) =>
                /\ ~h[1].alreadyProcessed
                /\ h[2].alreadyProcessed
                /\ h[2].usageEventId = h[1].usageEventId
                /\ h[2].stellarTxHash = h[1].stellarTxHash
                /\ h[1].stellarTxHash # NoHash
                /\ ~h[2].settled
                /\ settleCalls[r] = 1

\* C2 witness: two calls in sequence, the first created the row, the second
\* began after it and found the row at its SELECT.
C2_Witness ==
    \E r \in RequestIds :
        /\ Len(results[r]) >= 2
        /\ results[r][1].via = "created"
        /\ results[r][2].via = "existing"
        /\ serial[r]

C4_OneEventPerRequestId ==
    \A r \in RequestIds : Cardinality(EventsWith(r)) <= 1

\* C4 witness: a requestId recorded, cleared, recorded again and then offered
\* once more.
C4_Witness ==
    \E r \in RequestIds :
        /\ Len(usageLog) = 4
        /\ usageLog[1].op = "record" /\ usageLog[1].requestId = r
        /\ usageLog[2].op = "clear"
        /\ usageLog[3].op = "record" /\ usageLog[3].requestId = r
        /\ usageLog[4].op = "record" /\ usageLog[4].requestId = r
        /\ Cardinality(EventsWith(r)) = 1

\* The record calls before call j, for the same requestId, with no clear between.
EarlierRecords(j) ==
    {i \in 1..(j - 1) :
        /\ usageLog[i].op = "record"
        /\ usageLog[i].requestId = usageLog[j].requestId
        /\ \A m \in (i + 1)..(j - 1) : usageLog[m].op # "clear"}

\* C5: record returns true exactly when the list held no event of the
\* requestId, and among the record calls of one requestId (with no clear
\* between them) the first returns true and every other one false.
C5_RecordTrueOnce ==
    \A j \in 1..Len(usageLog) :
        usageLog[j].op = "record" =>
            /\ usageLog[j].ret = ~usageLog[j].present
            /\ usageLog[j].ret = (EarlierRecords(j) = {})

\* C5 witness: three record calls of one requestId in a row: true, false, false.
C5_Witness ==
    /\ Len(usageLog) >= 3
    /\ \A j \in 1..3 : usageLog[j].op = "record" /\ usageLog[j].requestId = "req1"
    /\ usageLog[1].ret
    /\ ~usageLog[2].ret
    /\ ~usageLog[3].ret

\* The last result returned for requestId r in the next state.
LastResult(r) == results'[r][Len(results'[r])]

\* C6: when deductBalance fails inside deduct, right after the call returns no
\* row of the requestId exists, committed or not, and the caller got
\* success = false, alreadyProcessed = false and the settlement error.
C6_SettlementFailureRollsBack ==
    [][\A c \in Callers :
          (pc[c] = "settle" /\ pc'[c] = "idle") =>
              /\ {row \in rows' : row.requestId = req[c]} = {}
              /\ pending'[c] = NoRow
              /\ \A d \in Callers : req'[d] = req[c] => pending'[d] = NoRow
              /\ Len(results'[req[c]]) = Len(results[req[c]]) + 1
              /\ ~LastResult(req[c]).success
              /\ ~LastResult(req[c]).alreadyProcessed
              /\ LastResult(req[c]).error = "SettlementFailure"]_vars

\* C6 witness: a call returned the settlement failure while another call of the
\* same requestId was waiting to insert, and no row of the requestId exists.
C6_Witness ==
    \E r \in RequestIds :
        /\ results[r] # <<>>
        /\ results[r][Len(results[r])].error = "SettlementFailure"
        /\ FindRows(r) = {}
        /\ \E d \in Callers : pc[d] = "insert" /\ req[d] = r
        /\ \A d \in Callers : req[d] = r => pending[d] = NoRow

\* C7: a deduct whose INSERT hits the unique violation rolls back, makes no
\* settlement call, re-queries and returns the committed row's usageEventId and
\* txHash with alreadyProcessed = true.
C7_RaceLoserReturnsWinnersRow ==
    [][\A c \in Callers :
          /\ (pc[c] = "insert" /\ pc'[c] = "requery") =>
                 /\ FindRows(req[c]) # {}
                 /\ pending'[c] = NoRow
                 /\ rows' = rows
                 /\ settleCalls' = settleCalls
          /\ (pc[c] = "requery" /\ pc'[c] = "idle") =>
                 /\ rows' = rows
                 /\ settleCalls' = settleCalls
                 /\ txCount' = txCount
                 /\ Cardinality(FindRows(req[c])) = 1
                 /\ LastResult(req[c]).success
                 /\ LastResult(req[c]).alreadyProcessed
                 /\ ~LastResult(req[c]).settled
                 /\ LastResult(req[c]).usageEventId = FirstRow(req[c]).id
                 /\ LastResult(req[c]).stellarTxHash = FirstRow(req[c]).txHash
                 /\ FirstRow(req[c]).txHash # NoHash]_vars

\* C7 witness: a call that lost the insert race has returned the winner's row.
C7_Witness ==
    \E r \in RequestIds :
        \E i \in 1..Len(results[r]) :
            /\ results[r][i].via = "race"
            /\ results[r][i].usageEventId = FirstRow(r).id
            /\ settleCalls[r] = 1

\* C8: getByRequestId makes no settlement call and changes neither the table nor
\* any open transaction; it returns the committed row's usageEventId and txHash
\* when a row of the requestId is committed, and not-found otherwise.
C8_GetByRequestIdReadsOnly ==
    [][lookup' # lookup =>
          /\ UNCHANGED <<rows, pending, nextId, pc, req, localTx, settleCalls,
                         txCount, results, started>>
          /\ IF FindRows(lookup'.requestId) # {}
             THEN /\ lookup'.found
                  /\ lookup'.alreadyProcessed
                  /\ lookup'.usageEventId = FirstRow(lookup'.requestId).id
                  /\ lookup'.stellarTxHash = FirstRow(lookup'.requestId).txHash
             ELSE /\ ~lookup'.found
                  /\ lookup'.usageEventId = 0
                  /\ lookup'.stellarTxHash = NoHash]_vars

\* C8 witness: a poll returned the committed row of a settled requestId while a
\* transaction held an uncommitted row.
C8_Witness ==
    /\ lookup.found
    /\ lookup.stellarTxHash # NoHash
    /\ FindRows(lookup.requestId) # {}
    /\ \E c \in Callers : pending[c] # NoRow

\* C9: in each window of a key at most maxRequests calls are allowed.
C9_AllowedWithinQuota ==
    \A k \in ApiKeys : allowedInWindow[k] <= maxRequests

\* C9 witness: both keys in use, one of them denied after its whole quota of
\* at least two was allowed in the window.
C9_Witness ==
    \E k \in ApiKeys :
        /\ lastCheck.key = k
        /\ ~lastCheck.allowed
        /\ maxRequests >= 2
        /\ allowedInWindow[k] = maxRequests
        /\ \E other \in ApiKeys \ {k} : allowedInWindow[other] >= 1

\* C10: a check made when the window has elapsed resets the bucket in full
\* before the quota test (with maxRequests >= 1 it is allowed and leaves
\* maxRequests - 1 tokens and lastRefill = now); a check made inside the window
\* never adds a token and leaves lastRefill alone.
C10_FixedWindowReset ==
    [][\A k \in ApiKeys :
          (lastCheck'.flip # lastCheck.flip /\ lastCheck'.key = k
             /\ buckets[k] # NoBucket) =>
              /\ (now - buckets[k].lastRefill >= windowMs /\ maxRequests >= 1) =>
                     /\ lastCheck'.allowed
                     /\ buckets'[k] = [tokens |-> maxRequests - 1, lastRefill |-> now]
              /\ (now - buckets[k].lastRefill < windowMs) =>
                     /\ buckets'[k].lastRefill = buckets[k].lastRefill
                     /\ buckets'[k].tokens <= buckets[k].tokens
                     /\ buckets'[k].tokens >= buckets[k].tokens - 1]_vars

\* C10 witness: a key with no token left was checked after its window had
\* elapsed, and the call was allowed from a full bucket.
C10_Witness ==
    /\ lastCheck.hadBucket
    /\ lastCheck.tokensBefore = 0
    /\ lastCheck.elapsed >= windowMs
    /\ lastCheck.allowed
    /\ maxRequests >= 2
    /\ buckets[lastCheck.key] = [tokens |-> maxRequests - 1, lastRefill |-> now]

\* C11: a denied check returns retryAfterMs = windowMs - (now - the start of
\* the key's window), clamped at 0, and so a value in 0..windowMs.
C11_RetryAfterIsTimeLeft ==
    [][\A k \in ApiKeys :
          (lastCheck'.flip # lastCheck.flip /\ lastCheck'.key = k
             /\ ~lastCheck'.allowed) =>
              LET left == windowMs - (now - buckets'[k].lastRefill)
              IN  /\ lastCheck'.retryAfterMs = (IF left >= 0 THEN left ELSE 0)
                  /\ lastCheck'.retryAfterMs >= 0
                  /\ lastCheck'.retryAfterMs <= windowMs]_vars

\* C11 witness: a key was denied part-way through its window, with some of
\* the window elapsed and some of it left.
C11_Witness ==
    /\ lastCheck.key # NoRequest
    /\ ~lastCheck.allowed
    /\ lastCheck.hadBucket
    /\ lastCheck.elapsed > 0
    /\ lastCheck.retryAfterMs > 0
    /\ lastCheck.retryAfterMs < windowMs

\* The listed endpoints that are no wildcard and whose pattern, with its
\* leading slash, starts the path, with its leading slash.
Matching ==
    {i \in 1..Len(endpointList) :
        /\ endpointList[i].path # Wildcard
        /\ StartsWith(Normalise(requestPath), Normalise(endpointList[i].path))}

Wildcards == {i \in 1..Len(endpointList) : endpointList[i].path = Wildcard}

\* C13: resolveEndpointPrice returns for every list and every path, leaves
\* the list as it was, and returns an entry of the list or the free default:
\* with no matching non-wildcard pattern it is the (first) wildcard entry if
\* there is one and the default with price 0 if there is none.
C13_TotalPureWithFallback ==
    /\ resolved = NotResolved =>
           ResolveEndpointPrice(endpointList, requestPath) # NotResolved
    /\ endpointList = passed
    /\ resolved # NotResolved =>
           /\ \/ resolved = DefaultEndpoint
              \/ \E i \in 1..Len(passed) : resolved = passed[i]
           /\ (Matching = {} /\ Wildcards # {}) =>
                  \E i \in Wildcards :
                      /\ resolved = passed[i]
                      /\ \A j \in Wildcards : i <= j
           /\ (Matching = {} /\ Wildcards = {}) =>
                  /\ resolved = DefaultEndpoint
                  /\ resolved.priceUsdc = 0

\* C13 witness: the only non-wildcard pattern of the list does not match the
\* path, and the wildcard entry listed behind it was returned.
C13_Witness ==
    /\ Len(endpointList) = 2
    /\ endpointList[1].path # Wildcard
    /\ Matching = {}
    /\ Wildcards = {2}
    /\ resolved = endpointList[2]

\* The order of the stages of handleProxy.
StageOrder ==
    <<"ResolveApi", "ValidateKey", "RateLimitCheck", "BalanceCheck", "Forward">>

KnownApi(slugOrId) == \E e \in ApiEntries : e.id = slugOrId \/ e.slug = slugOrId

\* The keys registered for the API that slugOrId names.
KeysOf(slugOrId) ==
    {k.key : k \in {r \in KeyRecords :
                       \E e \in ApiEntries :
                           /\ e.id = slugOrId \/ e.slug = slugOrId
                           /\ r.apiId = e.id}}

\* C14: the stages run in the order ResolveApi, ValidateKey, RateLimitCheck,
\* BalanceCheck, Forward; the first that fails gives the response (404, 401,
\* 429, 402) and none runs after it: an unknown API is answered 404 whatever
\* the key, and a rate-limited key 429 whatever the balance.
C14_FirstFailingStageAnswers ==
    LET r == lastResponse
        n == Len(r.stages)
    IN  r.requestId # 0 =>
            /\ n >= 1
            /\ r.stages = SubSeq(StageOrder, 1, n)
            /\ (r.status = 404) <=> (n = 1)
            /\ (r.status = 401) <=> (n = 2)
            /\ (r.status = 429) <=> (n = 3)
            /\ (r.status = 402) <=> (n = 4)
            /\ ~KnownApi(r.apiSlugOrId) <=> (r.status = 404)
            /\ (KnownApi(r.apiSlugOrId) /\ r.apiKeyHeader \notin KeysOf(r.apiSlugOrId))
                   <=> (r.status = 401)
            /\ (r.status = 402) => r.balanceOnArrival <= 0
            /\ (r.status = 429) => r.apiKeyHeader \in KeysOf(r.apiSlugOrId)
            /\ (n = 5) => r.upstream # NoRequest

\* C14 witness: a key over its quota was answered 429 while its developer's
\* balance was zero.
C14_Witness ==
    /\ lastResponse.status = 429
    /\ lastResponse.stages = <<"ResolveApi", "ValidateKey", "RateLimitCheck">>
    /\ lastResponse.balanceOnArrival = 0
    /\ balances["dev1"] = 0

\* C15: a request is forwarded only with a key registered for the API it
\* names; a key that is not registered and a key registered for another API
\* are answered alike, 401 with the one message "Unauthorized: invalid API key".
C15_ForwardNeedsKeyOfTheApi ==
    /\ \A h \in Handlers :
           handler[h].pc # "idle" =>
               handler[h].apiKeyHeader \in KeysOf(handler[h].apiSlugOrId)
    /\ LET r == lastResponse
       IN  /\ Len(r.stages) = 5 => r.apiKeyHeader \in KeysOf(r.apiSlugOrId)
           /\ (/\ KnownApi(r.apiSlugOrId)
               /\ r.apiKeyHeader # NoRequest
               /\ r.apiKeyHeader \notin KeysOf(r.apiSlugOrId)) =>
                  /\ r.status = 401
                  /\ r.error = "Unauthorized: invalid API key"

\* C15 witness: a key registered for another API was answered 401.
C15_Witness ==
    /\ KnownApi(lastResponse.apiSlugOrId)
    /\ \E k \in KeyRecords : k.key = lastResponse.apiKeyHeader
    /\ lastResponse.apiKeyHeader \notin KeysOf(lastResponse.apiSlugOrId)
    /\ lastResponse.status = 401
    /\ lastResponse.error = "Unauthorized: invalid API key"

\* The configured predicate, spelled out: 2xx by default, else every status.
RecordableByConfig(code) == recordableStatuses = "default" => (code >= 200 /\ code < 300)

\* C16: the stages up to BalanceCheck leave every balance as it is; in the
\* proxy path a balance changes only in the background RecordUsage step of a
\* request whose final status satisfied the recordable predicate.
C16_BalanceChangesOnlyInRecordUsage ==
    [][/\ issued' # issued => balances' = balances
       /\ balances' # balances =>
              \E h \in Handlers :
                  /\ handler[h].pc = "record"
                  /\ handler'[h].pc = "idle"
                  /\ RecordableByConfig(handler[h].upstreamStatus)
                  /\ \A d \in Developers \ {handler[h].keyRecord.developerId} :
                         balances'[d] = balances[d]]_vars

\* C16 witness: a request passed the balance check, ended with a recordable
\* status, and its background step took the price from the balance.
C16_Witness ==
    /\ Len(deductLog) >= 1
    /\ Len(events) >= 1
    /\ events[1].amountUsdc > 0
    /\ balances[events[1].userId] + events[1].amountUsdc <= MaxBalance
    /\ \A h \in Handlers : handler[h].pc = "idle"

\* The price the registry lists for an endpoint of an API; 0 for the default.
PriceOf(apiId, endpointId) ==
    LET entry == CHOOSE e \in ApiEntries : e.id = apiId
        listed == {i \in 1..Len(entry.endpoints) :
                      entry.endpoints[i].endpointId = endpointId}
    IN  IF listed # {}
        THEN entry.endpoints[CHOOSE i \in listed : TRUE].priceUsdc
        ELSE 0

\* The request behind r was forwarded, got its final status, and its
\* background step, if one was scheduled, has run.
Answered(r) ==
    /\ r.requestId # 0
    /\ Len(r.stages) = 5
    /\ r.upstream # "BodyFailed"
    /\ \A h \in Handlers : handler[h].requestId # r.requestId

DeductionsFor(id) == {i \in 1..Len(deductLog) : deductLog[i].requestId = id}

\* C17 as stated: a request records a usage event and attempts a deduction
\* if and only if its final status satisfies the recordable predicate.
C17_RecordsAndDeductsIffRecordable ==
    LET r == lastResponse
    IN  Answered(r) =>
            (RecordableByConfig(r.status) <=>
                 /\ EventsWith(r.requestId) # {}
                 /\ DeductionsFor(r.requestId) # {})

\* C17: a request records a usage event if and only if its final status
\* satisfies the recordable predicate, and calls deductCredit (once, with the
\* endpoint's price) if and only if moreover that price is greater than 0.
\* With the default predicate a 500 records nothing and calls no deduction;
\* with the accept-all predicate a 500 records one event with the endpoint's
\* price.
C17_RecordsIffRecordableDeductsIfPriced ==
    /\ \A i \in 1..Len(events) : RecordableByConfig(events[i].statusCode)
    /\ \A j \in 1..Len(deductLog) :
           \E i \in EventsWith(deductLog[j].requestId) :
               /\ events[i].amountUsdc > 0
               /\ events[i].amountUsdc = deductLog[j].amount
    /\ LET r == lastResponse
       IN  Answered(r) =>
               /\ RecordableByConfig(r.status) <=>
                      Cardinality(EventsWith(r.requestId)) = 1
               /\ ~RecordableByConfig(r.status) =>
                      /\ EventsWith(r.requestId) = {}
                      /\ DeductionsFor(r.requestId) = {}
               /\ \A i \in EventsWith(r.requestId) :
                      /\ events[i].statusCode = r.status
                      /\ events[i].amountUsdc =
                             PriceOf(events[i].apiId, events[i].endpointId)
                      /\ Cardinality(DeductionsFor(r.requestId)) =
                             IF events[i].amountUsdc > 0 THEN 1 ELSE 0
               /\ (r.status = 500 /\ recordableStatuses = "default") =>
                      /\ EventsWith(r.requestId) = {}
                      /\ DeductionsFor(r.requestId) = {}
               /\ (r.status = 500 /\ recordableStatuses = "all") =>
                      Cardinality(EventsWith(r.requestId)) = 1

\* C17 witness: under the accept-all predicate a 500 response was recorded
\* and the price of its endpoint taken from the balance.
C17_Witness ==
    /\ recordableStatuses = "all"
    /\ Answered(lastResponse)
    /\ lastResponse.status = 500
    /\ \E i \in EventsWith(lastResponse.requestId) :
           /\ events[i].statusCode = 500
           /\ events[i].amountUsdc > 0
           /\ \E j \in DeductionsFor(lastResponse.requestId) :
                  /\ deductLog[j].amount = events[i].amountUsdc
                  /\ deductLog[j].after = deductLog[j].before - deductLog[j].amount

\* C18: a request that ends with a recordable status on an endpoint whose
\* price is greater than 0 records exactly one usage event with the
\* endpoint's id and price, and the developer's balance goes down by exactly
\* that price, once.
C18_ChargedExactlyOnce ==
    LET r == lastResponse
    IN  (Answered(r) /\ RecordableByConfig(r.status) /\ r.endpoint.priceUsdc > 0) =>
            /\ Cardinality(EventsWith(r.requestId)) = 1
            /\ \A i \in EventsWith(r.requestId) :
                   /\ events[i].endpointId = r.endpoint.endpointId
                   /\ events[i].amountUsdc = r.endpoint.priceUsdc
            /\ Cardinality(DeductionsFor(r.requestId)) = 1
            /\ \A j \in DeductionsFor(r.requestId) :
                   deductLog[j].after = deductLog[j].before - r.endpoint.priceUsdc

\* C19: a request that ends with a recordable status on an endpoint whose
\* price is 0 records one usage event with amountUsdc = 0 and no deduction
\* is invoked for it, so it takes nothing off the balance.
C19_FreeEndpointRecordsWithoutDeduction ==
    /\ \A i \in 1..Len(events) :
           events[i].amountUsdc = 0 => DeductionsFor(events[i].requestId) = {}
    /\ LET r == lastResponse
       IN  (Answered(r) /\ RecordableByConfig(r.status) /\ r.endpoint.priceUsdc = 0) =>
               /\ Cardinality(EventsWith(r.requestId)) = 1
               /\ \A i \in EventsWith(r.requestId) : events[i].amountUsdc = 0
               /\ DeductionsFor(r.requestId) = {}

C19_Witness ==
    LET r == lastResponse
    IN  /\ Answered(r)
        /\ r.endpoint.endpointId = 2
        /\ r.endpoint.priceUsdc = 0
        /\ \E i \in EventsWith(r.requestId) : events[i].amountUsdc = 0
        /\ DeductionsFor(r.requestId) = {}

\* C20: an upstream that does not answer within timeoutMs gets 504 and an
\* upstream whose connection fails gets 502; under the default recordable
\* predicate neither records a usage event nor makes a deduction.
C20_TimeoutIs504FailureIs502 ==
    LET r == lastResponse
    IN  /\ r.upstream \in {"TimeoutError", "ConnectTimeout"} =>
               r.status = 504 /\ r.error = "Gateway Timeout"
        /\ r.upstream = "FetchFailed" =>
               r.status = 502 /\ r.error = "Bad Gateway: upstream unreachable"
        /\ (r.upstream \in {"TimeoutError", "ConnectTimeout", "FetchFailed"}
              /\ recordableStatuses = "default") =>
               /\ EventsWith(r.requestId) = {}
               /\ DeductionsFor(r.requestId) = {}
               /\ \A h \in Handlers :
                      handler[h].pc = "record" => handler[h].requestId # r.requestId

C20_Witness ==
    /\ lastResponse.upstream = "TimeoutError"
    /\ lastResponse.status = 504
    /\ recordableStatuses = "default"
    /\ issued = MaxProxyCalls
    /\ \E i \in 1..Len(events) : events[i].requestId # lastResponse.requestId

\* The components of a health check that are present and not 'ok'.
Unhealthy(checks) ==
    {c \in Components : checks[c] \in {"degraded", "down"}}

\* C30: determineOverallStatus returns 'down' exactly when the api or the
\* database check is 'down'; otherwise it returns 'degraded' when some
\* component, critical or optional, is 'degraded' or 'down', and 'ok' when
\* every present component is 'ok'.  A 'down' soroban_rpc or horizon alone
\* never yields 'down', so the health endpoint does not answer 503 for it.
C30_DownOnlyForCriticalComponents ==
    LET checks == health.checks
        critical == checks.api = "down" \/ checks.database = "down"
    IN  /\ health.status # NoRequest =>
               /\ health.status = "down" <=> critical
               /\ health.status = "degraded" <=> (~critical /\ Unhealthy(checks) # {})
               /\ health.status = "ok" <=> Unhealthy(checks) = {}
        /\ health.statusCode # 0 =>
               /\ health.statusCode = 503 <=> checks.database = "down"
               /\ health.statusCode \in {200, 503}

C30_Witness ==
    /\ health.checks = [api |-> "ok", database |-> "ok", soroban_rpc |-> "down",
                        horizon |-> "down"]
    /\ health.status = "degraded"
    /\ health.statusCode = 200

\* The names the outbound request must never carry.
DenyList ==
    {"host", "connection", "keep-alive", "transfer-encoding", "te", "trailer",
     "upgrade", "proxy-authorization", "proxy-connection", "x-api-key"}

\* C24: no header of the deny-list, in any letter case, is copied from the
\* inbound request to the outbound one; every other single-valued inbound
\* header is copied with its value; and the outbound x-request-id is the
\* generated one, also when the client sent its own.
C24_DenyListStrippedRestCopied ==
    headers.built =>
        /\ \A o \in headers.forwardHeaders : o.name.lower \notin DenyList
        /\ \A h \in headers.inbound :
               (/\ h.name.lower \notin DenyList
                /\ h.name.lower # "x-request-id"
                /\ h.value \in HeaderValues) =>
                   \E o \in headers.forwardHeaders :
                       o.name.lower = h.name.lower /\ o.value = h.value
        /\ \A o \in headers.forwardHeaders :
               IF o.name.lower = "x-request-id"
               THEN o.value = GeneratedUUID
               ELSE \E h \in headers.inbound :
                        h.name.lower = o.name.lower /\ h.value = o.value
        /\ \E o \in headers.forwardHeaders : o.name.lower = "x-request-id"

C24_Witness ==
    /\ headers.built
    /\ \E h \in headers.inbound : h.name.lower = "x-api-key" /\ h.name.capitals
    /\ \E h \in headers.inbound : h.name.lower = "x-request-id" /\ h.value = "v1"
    /\ Cardinality(headers.forwardHeaders) = 1

\* C22 as stated: the x-request-id sent to the upstream differs from the
\* requestId under which the request's usage event is recorded.
C22_ForwardedIdDiffersFromEventKey ==
    /\ \A h \in Handlers :
           handler[h].pc \in {"forward", "record"} =>
               handler[h].forwardedRequestId # EventOf(handler[h]).requestId
    /\ \A i \in EventsWith(lastResponse.requestId) :
           events[i].requestId # lastResponse.forwardedRequestId

\* C22, amended: the x-request-id sent to the upstream is the requestId the
\* gateway generated for the request, the same value under which the
\* request's usage event is recorded; a request answered before the Forward
\* stage sends none.
C22_ForwardedIdIsTheEventKey ==
    /\ \A h \in Handlers :
           handler[h].pc \in {"forward", "record"} =>
               /\ handler[h].forwardedRequestId = handler[h].requestId
               /\ handler[h].forwardedRequestId = EventOf(handler[h]).requestId
               /\ handler[h].requestId \in 1..issued
    /\ LET r == lastResponse
       IN  /\ Len(r.stages) = 5 => r.forwardedRequestId = r.requestId
           /\ Len(r.stages) < 5 => r.forwardedRequestId = 0
           /\ \A i \in EventsWith(r.requestId) :
                  events[i].requestId = r.forwardedRequestId

C22_Witness ==
    /\ lastResponse.forwardedRequestId = 2
    /\ \E i \in 1..Len(events) : events[i].requestId = lastResponse.forwardedRequestId
    /\ \E i \in 1..Len(deductLog) :
           deductLog[i].requestId = lastResponse.forwardedRequestId

\* C23: every usage event the proxy records carries the requestId that went
\* out to the client as the x-request-id header of that request's response.
C23_EventKeyIsTheResponseHeader ==
    /\ \A h \in Handlers :
           handler[h].pc = "record" =>
               EventOf(handler[h]).requestId = handler[h].xRequestId
    /\ \A i \in EventsWith(lastResponse.requestId) :
           events[i].requestId = lastResponse.xRequestId
    /\ \A i \in 1..Len(events) : events[i].requestId \in 1..issued

C23_Witness ==
    /\ lastResponse.upstream = "Response"
    /\ lastResponse.xRequestId = 1
    /\ \E i \in 1..Len(events) : events[i].requestId = lastResponse.xRequestId
    /\ issued = 1

\* C25: every response the proxy produces itself (404, 401, 429, 402, 504,
\* 502) carries an x-request-id header.
C25_OwnResponsesCarryRequestId ==
    LET r == lastResponse
    IN  (r.requestId # 0 /\ r.upstream \notin {"Response", "ClientGone", "BodyFailed"}) =>
            /\ r.status \in {404, 401, 429, 402, 504, 502}
            /\ r.xRequestId = r.requestId

RecordCalls == {i \in 1..Len(usageLog) : usageLog[i].op = "record"}

\* C27 as stated: every call gets a fresh requestId and the store never
\* deduplicates a proxy call, so k calls that end with a recordable status
\* make k distinct usage events and k deduction attempts.
C27_OneEventOneDeductionPerCall ==
    /\ \A i \in RecordCalls : usageLog[i].ret
    /\ Len(events) = Cardinality(RecordCalls)
    /\ \A i, j \in 1..Len(events) : events[i].requestId = events[j].requestId => i = j
    /\ \A i \in 1..Len(events) : Cardinality(DeductionsFor(events[i].requestId)) = 1

\* C27, amended: every call gets a fresh requestId and the store never
\* deduplicates a proxy call, so k calls that end with a recordable status
\* make k distinct usage events, and one deduction attempt for each of them
\* whose endpoint has a price above 0.
C27_OneEventPerCallOneDeductionIfPriced ==
    /\ \A i \in RecordCalls : usageLog[i].ret
    /\ Len(events) = Cardinality(RecordCalls)
    /\ \A i, j \in 1..Len(events) : events[i].requestId = events[j].requestId => i = j
    /\ \A i \in 1..Len(events) :
           Cardinality(DeductionsFor(events[i].requestId))
               = IF events[i].amountUsdc > 0 THEN 1 ELSE 0
    /\ \A g, h \in Handlers :
           (handler[g].pc # "idle" /\ handler[h].pc # "idle"
              /\ handler[g].requestId = handler[h].requestId) => g = h
    /\ \A h \in Handlers :
           handler[h].pc # "idle" => EventsWith(handler[h].requestId) = {}
    /\ Len(events) + Cardinality({h \in Handlers : handler[h].pc = "record"}) <= issued

C27_Witness ==
    /\ Len(events) = 2
    /\ events[1].apiKey = events[2].apiKey
    /\ events[1].endpointId = events[2].endpointId
    /\ events[1].amountUsdc > 0
    /\ events[1].requestId # events[2].requestId
    /\ Len(deductLog) = 2

\* C28: when the body stream is cut short before the whole response reached
\* the client (a read error, the deadline or the client going away), the
\* request records no usage event and makes no deduction.
C28_NoUsageForAbortedBody ==
    LET r == lastResponse
    IN  r.upstream \in {"BodyFailed", "ClientGone"} =>
            /\ EventsWith(r.requestId) = {}
            /\ DeductionsFor(r.requestId) = {}
            /\ \A h \in Handlers :
                   handler[h].pc = "record" => handler[h].requestId # r.requestId

\* C21: in the proxy router and in the legacy route alike, a request that is
\* answered 401, 429 or 402 is not forwarded to the upstream, records no
\* usage event and leaves every developer's balance as it was.
C21_RejectedRequestLeavesNoTrace ==
    [][(/\ lastResponse' # lastResponse
        /\ lastResponse'.status \in {401, 429, 402}
        /\ lastResponse'.upstream = NoRequest) =>
           /\ lastResponse'.route \in {"proxy", "legacy"}
           /\ balances' = balances
           /\ events' = events
           /\ \A i \in 1..Len(events') :
                  events'[i].requestId # lastResponse'.requestId
           /\ handler' = handler
           /\ lastResponse'.forwardedRequestId = 0
           /\ \A i \in 1..Len(lastResponse'.stages) :
                  lastResponse'.stages[i] # "Forward"]_vars

C21_Witness ==
    /\ lastResponse.route = "legacy"
    /\ lastResponse.status = 402
    /\ lastResponse.requestId = 2
    /\ allowedInWindow["keyA"] = 2
    /\ balances["dev1"] = 0
    /\ Len(deductLog) = 1
    /\ events = <<>>

\* C29: in the legacy route the credit is taken before the upstream is
\* called, and every request that got that far records exactly one usage
\* event with its final status, be it the upstream's own (a 500 included) or
\* the 502 of an unreachable upstream, and the credit stays taken.
C29_LegacyDeductsFirstRecordsAlways ==
    [][\A h \in Handlers :
           /\ (handler[h].pc = "idle" /\ handler'[h].pc = "legacy") =>
                  /\ balances'[handler'[h].keyRecord.developerId]
                         = balances[handler'[h].keyRecord.developerId]
                               - CREDIT_COST_PER_CALL
                  /\ events' = events
                  /\ EventsWith(handler'[h].requestId) = {}
           /\ (handler[h].pc = "legacy" /\ handler'[h].pc # "legacy") =>
                  /\ balances' = balances
                  /\ deductLog' = deductLog
                  /\ \E j \in DeductionsFor(handler[h].requestId) :
                         deductLog[j].after
                             = deductLog[j].before - CREDIT_COST_PER_CALL
                  /\ EventsWith(handler[h].requestId) = {}
                  /\ Len(events') = Len(events) + 1
                  /\ events'[Len(events')].requestId = handler[h].requestId
                  /\ events'[Len(events')].statusCode = lastResponse'.status
                  /\ events'[Len(events')].amountUsdc = CREDIT_COST_PER_CALL
                  /\ lastResponse'.route = "legacy"
                  /\ lastResponse'.requestId = handler[h].requestId
                  /\ lastResponse'.status \in UpstreamStatuses \cup {502}]_vars

C29_Witness ==
    /\ lastResponse.route = "legacy"
    /\ lastResponse.status = 502
    /\ lastResponse.requestId = 2
    /\ Len(events) = 2
    /\ events[1].statusCode = 500
    /\ events[1].endpointId = LegacyEndpointId
    /\ events[2].statusCode = 502
    /\ Len(deductLog) = 2
    /\ deductLog[2].after = deductLog[1].before - 2

\* C31: deduct calls with different requestIds do not conflict: a call takes
\* the uniqueness-violation path only over a committed row of its own
\* requestId, which another call of that requestId created; and a requestId
\* whose only call succeeds has its own row, with its own id and transaction
\* hash, and exactly one settlement call, whatever the other calls do.
C31_DifferentRequestIdsDoNotConflict ==
    /\ \A c \in Callers : pc[c] = "requery" => FindRows(req[c]) # {}
    /\ \A r \in RequestIds :
           /\ \A x \in Results(r) :
                  x.via = "race" => \E y \in Results(r) : y.via = "created"
           /\ (Len(results[r]) = 1 /\ InFlight(r) = {} /\ results[r][1].success) =>
                  /\ results[r][1].via = "created"
                  /\ ~results[r][1].alreadyProcessed
                  /\ settleCalls[r] = 1
                  /\ Cardinality(FindRows(r)) = 1
                  /\ FirstRow(r).id = results[r][1].usageEventId
                  /\ FirstRow(r).txHash = results[r][1].stellarTxHash
    /\ \A x, y \in rows :
           x.requestId # y.requestId => (x.id # y.id /\ x.txHash # y.txHash)

\* C31 witness: two calls with different requestIds overlapped (the one that
\* inserted first settled second), each was the only call of its requestId, and
\* each created its row.
C31_Witness ==
    \E x, y \in rows :
        /\ x.requestId # y.requestId
        /\ x.id < y.id
        /\ x.txHash > y.txHash
        /\ \A r \in {x.requestId, y.requestId} :
               /\ Len(results[r]) = 1
               /\ results[r][1].via = "created"
               /\ InFlight(r) = {}
               /\ settleCalls[r] = 1

\* C32: a committed row is never changed or removed afterwards, and no
\* committed row is visible without its transaction hash: every row of the
\* table, every row a status poll returns and every row a deduct call returns
\* as existing holds the hash.
C32_CommittedRowsKeepTheirHash ==
    [][/\ rows \subseteq rows'
       /\ \A row \in rows' : row.txHash # NoHash
       /\ \A x, y \in rows' : x.requestId = y.requestId => x = y
       /\ lookup'.found =>
              \E row \in rows' :
                  /\ row.requestId = lookup'.requestId
                  /\ row.id = lookup'.usageEventId
                  /\ row.txHash = lookup'.stellarTxHash
       /\ \A r \in RequestIds :
              \A x \in {results'[r][i] : i \in 1..Len(results'[r])} :
                  x.success => x.stellarTxHash # NoHash]_vars

\* C32 witness: a poll returned a committed row with its hash while another
\* transaction had its hash written but was not committed, its row in no one's
\* sight.
C32_Witness ==
    /\ lookup.found
    /\ lookup.stellarTxHash # NoHash
    /\ \E c \in Callers :
           /\ pc[c] = "commit"
           /\ pending[c].txHash # NoHash
           /\ FindRows(req[c]) = {}
           /\ req[c] # lookup.requestId

\* The settlement calls for r that returned a transaction hash: money moved.
MoneyMoved(r) ==
    settleCalls[r]
        - Cardinality({i \in 1..Len(results[r]) :
                           results[r][i].error = "SettlementFailure"})

\* C33: once the settlement service has moved money for a requestId and the
\* deduct call has returned, a committed row of the requestId holds the hash,
\* also when the update of the hash or the commit failed; so money moves at
\* most once per requestId.
C33_MoneyMovedMeansRowCommitted ==
    \A r \in RequestIds :
        /\ \A x \in Results(r) :
               (x.settled /\ x.error # "SettlementFailure") => FindRows(r) # {}
        /\ MoneyMoved(r) <= 1

\* C34: a deduct call that follows a settlement failure of the same requestId,
\* with no call of the requestId having succeeded before it, is a new request:
\* no row of the requestId is there while only failures have returned, and the
\* first call to succeed has called the settlement service itself and returns
\* the row it created with alreadyProcessed = false.
C34_RetryAfterSettlementFailureIsNew ==
    \A r \in RequestIds :
        /\ (\A x \in Results(r) : ~x.success) => FindRows(r) = {}
        /\ \A i \in 1..Len(results[r]) :
               (/\ results[r][i].success
                /\ \A j \in 1..(i - 1) : ~results[r][j].success
                /\ \E j \in 1..(i - 1) : results[r][j].error = "SettlementFailure") =>
                   /\ results[r][i].via = "created"
                   /\ ~results[r][i].alreadyProcessed
                   /\ results[r][i].settled
                   /\ results[r][i].stellarTxHash # NoHash
                   /\ settleCalls[r] >= 2

\* C34 witness: the first call of a requestId returned the settlement failure;
\* the retry began after that, settled and created the row.
C34_Witness ==
    \E r \in RequestIds :
        /\ Len(results[r]) = 2
        /\ serial[r]
        /\ InFlight(r) = {}
        /\ results[r][1].error = "SettlementFailure"
        /\ results[r][2].via = "created"
        /\ ~results[r][2].alreadyProcessed
        /\ settleCalls[r] = 2
        /\ FirstRow(r).txHash = results[r][2].stellarTxHash

\* C35: after any sequence of record and clear calls hasEvent(requestId) is
\* true exactly when getEvents() holds an event of the requestId; clear leaves
\* the list and the set of requestIds empty together, and a record that
\* follows a clear returns true.
C35_HasEventIffListed ==
    /\ \A r \in RequestIds :
           HasEvent(r) <=>
               \E i \in 1..Len(GetEvents(NoRequest)) :
                   GetEvents(NoRequest)[i].requestId = r
    /\ \A j \in 1..Len(usageLog) :
           /\ (usageLog[j].op = "clear" /\ j = Len(usageLog)) =>
                  /\ events = <<>>
                  /\ requestIds = {}
           /\ (usageLog[j].op = "record" /\ j > 1 /\ usageLog[j - 1].op = "clear") =>
                  usageLog[j].ret

\* C35 witness: a requestId recorded, the store cleared, the requestId recorded
\* again with true, and hasEvent true for it and false for the other.
C35_Witness ==
    /\ Len(usageLog) = 3
    /\ usageLog[1].op = "record" /\ usageLog[1].requestId = "req1" /\ usageLog[1].ret
    /\ usageLog[2].op = "clear"
    /\ usageLog[3].op = "record" /\ usageLog[3].requestId = "req1" /\ usageLog[3].ret
    /\ HasEvent("req1")
    /\ ~HasEvent("req2")
    /\ Len(events) = 1

\* C36: with maxRequests >= 1 a check that is denied leaves every bucket as it
\* was, the key's own included: the window start and the tokens stay, and no
\* bucket ever holds fewer than 0 tokens.
C36_DeniedCheckLeavesBucket ==
    [][(maxRequests >= 1 /\ lastCheck' # lastCheck /\ ~lastCheck'.allowed) =>
           /\ buckets[lastCheck'.key] # NoBucket
           /\ buckets' = buckets
           /\ buckets'[lastCheck'.key].tokens = 0
           /\ \A k \in ApiKeys : buckets'[k] # NoBucket => buckets'[k].tokens >= 0]_vars

\* C36 witness: a check denied some time into the window, the bucket still
\* stamped with the start of the window and holding 0 tokens.
C36_Witness ==
    /\ maxRequests >= 1
    /\ lastCheck.key # NoRequest
    /\ ~lastCheck.allowed
    /\ lastCheck.elapsed >= 1
    /\ lastCheck.retryAfterMs >= 1
    /\ buckets[lastCheck.key].tokens = 0
    /\ buckets[lastCheck.key].lastRefill = now - lastCheck.elapsed

\* C37: check(k1) creates or changes the bucket of k1 alone: the bucket of
\* every other key is after the call what it was before.
C37_CheckTouchesOwnBucketOnly ==
    [][lastCheck' # lastCheck =>
           \A k2 \in ApiKeys \ {lastCheck'.key} : buckets'[k2] = buckets[k2]]_vars

\* C37 witness: the bucket of one key was made by a check while the other key
\* had an older bucket that was used up; that bucket is still as it was.
C37_Witness ==
    \E k1, k2 \in ApiKeys :
        /\ k1 # k2
        /\ lastCheck.key = k1
        /\ lastCheck.allowed
        /\ ~lastCheck.hadBucket
        /\ buckets[k2] # NoBucket
        /\ buckets[k2].tokens = 0
        /\ buckets[k2].lastRefill < buckets[k1].lastRefill
        /\ buckets[k1].tokens = maxRequests - 1

\* C38: in the proxy a request answered 404 or 401 has not touched the rate
\* limiter: no bucket and no count has changed; a request answered 402 has
\* passed the rate limiter before the balance check and has taken one token of
\* its key's bucket, the other buckets being as they were.
C38_RejectionAndQuota ==
    [][(lastResponse' # lastResponse /\ lastResponse'.upstream = NoRequest) =>
           /\ lastResponse'.status \in {404, 401} =>
                  /\ buckets' = buckets
                  /\ allowedInWindow' = allowedInWindow
                  /\ lastCheck' = lastCheck
           /\ lastResponse'.status = 402 =>
                  LET k == lastResponse'.apiKeyHeader
                  IN  /\ lastResponse'.stages = SubSeq(AllStages, 1, 4)
                      /\ lastCheck' # lastCheck
                      /\ lastCheck'.key = k
                      /\ lastCheck'.allowed
                      /\ buckets'[k].tokens =
                             (IF buckets[k] = NoBucket
                                    \/ now - buckets[k].lastRefill >= windowMs
                              THEN maxRequests
                              ELSE buckets[k].tokens) - 1
                      /\ allowedInWindow'[k] >= 1
                      /\ \A k2 \in ApiKeys \ {k} : buckets'[k2] = buckets[k2]]_vars

\* C38 witness: with a quota of 1 a developer without balance was answered 402
\* and left its key without a token: the next request with the key is answered
\* 429, though nothing was forwarded, recorded or deducted.
C38_Witness ==
    /\ maxRequests = 1
    /\ lastResponse.status = 429
    /\ lastResponse.apiKeyHeader = "keyA"
    /\ lastResponse.requestId = 2
    /\ balances["dev1"] = 0
    /\ events = <<>>
    /\ deductLog = <<>>
    /\ handler = [h \in Handlers |-> IdleHandler]
    /\ buckets["keyA"].tokens = 0
    /\ buckets["keyB"] = NoBucket

\* C39: deductCredit takes the amount off the balance exactly when the balance
\* is at least the amount and leaves it alone otherwise, touching no other
\* developer's balance; so no balance is ever below 0, also when several
\* requests have passed the balance check on the same funds.
C39_DeductCreditNeverOverdraws ==
    [][/\ \A d \in Developers : balances'[d] >= 0
       /\ deductLog' # deductLog =>
              LET e == deductLog'[Len(deductLog')]
              IN  /\ Len(deductLog') = Len(deductLog) + 1
                  /\ e.amount >= 0
                  /\ e.before = balances[e.developerId]
                  /\ e.after = balances'[e.developerId]
                  /\ e.before >= e.amount => e.after = e.before - e.amount
                  /\ e.before < e.amount => e.after = e.before
                  /\ \A d \in Developers \ {e.developerId} :
                         balances'[d] = balances[d]
       /\ deductLog' = deductLog =>
              \A d \in Developers : balances'[d] = balances[d]]_vars

\* C39 witness: two requests of one developer were forwarded on the same
\* funds; the deduction of the first went through and left nothing, the
\* deduction of the second found too little and left the balance at 0.
C39_Witness ==
    /\ Len(deductLog) = 2
    /\ deductLog[1].developerId = deductLog[2].developerId
    /\ deductLog[1].requestId # deductLog[2].requestId
    /\ deductLog[1].after = deductLog[1].before - deductLog[1].amount
    /\ deductLog[1].after = 0
    /\ deductLog[2].before = 0
    /\ deductLog[2].amount > 0
    /\ deductLog[2].after = 0
    /\ balances[deductLog[2].developerId] = 0
    /\ Len(events) = 2
    /\ \A i \in 1..2 :
           /\ events[i].requestId = deductLog[i].requestId
           /\ events[i].endpointId # LegacyEndpointId
           /\ events[i].statusCode = 200

====
